---- MODULE Spec2Model ----
(***************************************************************************)
(* A model of the weekly planning engine of the Reddit content calendar    *)
(* planner: the weekly slot distributor, the topic filter, the channel     *)
(* (subreddit) selector, the identity (persona) assigner, the conversation *)
(* planner, the spam auditor and the generateCalendar orchestrator.        *)
(*                                                                         *)
(* Numbers that the source computes in floating point are kept here as     *)
(* exact integers over a common denominator (see SCALE); days are integers *)
(* counted from the Sunday that starts the planned week (day 0).           *)
(***************************************************************************)
EXTENDS Integers, Sequences, FiniteSets, TLC

VARIABLES
    \* ---- weekly slot distributor (distributePostsAcrossWeek)
    totalPosts,     \* the argument of distributePostsAcrossWeek
    distribution,   \* its result, a function 0..6 -> Nat (<<>> before the call)
    dpc,            \* "call" before the call, "done" after it
    \* ---- topic filter (generateTopics)
    company,        \* the company profile: [pain_points, target_users]
    topicHistory,   \* topic_history rows: [topic, daysSince] (daysSince = -1: no date)
    reqCount,       \* params.count, the requested number of topics
    llm,            \* what the collaborator answers: [ok, topics]
    generated,      \* the topics generateTopics returned (<<>> before the call)
    tpc,            \* "call" before the call, "done" after it
    \* ---- environment
    tz,             \* hours the server's local time is ahead of UTC
    \* ---- channel selector (selectSubreddit)
    selSubreddits,  \* params.subreddits
    selActivities,  \* params.activities, by subreddit id (NoActivity: none)
    selTopic,       \* params.topic
    selDay,         \* params.targetDate, as the day whose local midnight it is
    selResult,      \* the returned SubredditScore[] (<<>> before the call)
    spc,            \* "call" before the call, "done" after it
    \* ---- what a generateCalendar run is given
    now,            \* the instant of the run (Date.now(), created_at of its rows)
    personas,       \* the personas of the company
    subreddits,     \* the subreddits of the company
    params,         \* [week_start_date, posts_per_week, existing_calendar_id (0: none)]
    \* ---- the store
    dbCalendars,    \* content_calendars: [id, week_start_date, created_at, spam_warnings]
    dbPosts,        \* calendar_posts, in table order
    dbReplies,      \* calendar_replies, in table order
    dbTopicHistory, \* topic_history: [topic, last_used_date, usage_count]
    dbActivity,     \* subreddit_activity, a set of rows
    \* ---- the locals of generateCalendar
    pc,             \* "start", "slots", "finish", "done" or "failed" (it threw)
    error,          \* the message of the Error thrown ("" when none)
    generatedTopics,
    calendar,       \* calendar.id (0 before step 3)
    posts,
    postPersonaMap, \* a function from post ids to persona ids
    usedTopics,
    topicIndex,
    activitiesMap,  \* by subreddit id (NoActivity: no entry)
    recentPosts,
    previousWeeksPosts,
    dayPosts,
    strategyMap,
    slot,           \* <<dayOfWeek, i>> of the two loops of step 4
    replyPlans,     \* a Map as the sequence of its entries [post_id, persona_id]
    validatedReplies,
    replies,
    spamCheck,
    failures,       \* the inserts the store has refused so far
    regenerations,  \* the times the calendar was planned again so far
    \* ---- quality scorer (evaluateCalendarQuality)
    qGiven,         \* the arguments as the caller holds them before the calls
    quality,        \* the score of the first call (<<>> before it)
    qualityAgain,   \* the score of the second call (<<>> before it)
    qpc,            \* "first", "second" or "done"
    \* ---- identity assigner (assignPersona)
    asgSubredditId, \* params.subredditId
    assignment,     \* the returned PersonaAssignment (<<>> before the call)
    apc,            \* "call" before the call, "done" after it
    \* ---- two runs for one company and week
    runs,           \* by run: [pc, existing, calendar, activitiesMap, created]
    writeLog        \* the runs in the order they loaded and wrote the counters

distVars == <<totalPosts, distribution, dpc>>
topicVars == <<company, topicHistory, reqCount, llm, generated, tpc>>

selVars == <<selSubreddits, selActivities, selTopic, selDay, selResult, spc>>

envVars == <<now, personas, subreddits, params>>
dbVars == <<dbCalendars, dbPosts, dbReplies, dbTopicHistory, dbActivity>>
runVars == <<pc, error, generatedTopics, calendar, posts, postPersonaMap, usedTopics,
             topicIndex, activitiesMap, recentPosts, previousWeeksPosts, dayPosts,
             strategyMap, slot, replyPlans, validatedReplies, replies, spamCheck, failures>>

qualityVars == <<qGiven, quality, qualityAgain, qpc>>
assignVars == <<asgSubredditId, assignment, apc>>
raceVars == <<runs, writeLog>>
sideVars == <<regenerations, qualityVars, assignVars, raceVars>>

vars == <<distVars, topicVars, tz, selVars, envVars, dbVars, runVars, sideVars>>

(***************************************************************************)
(* Generic helpers                                                         *)
(***************************************************************************)
Days == 0..6

RECURSIVE SumTo(_, _)
SumTo(f, n) == IF n < 0 THEN 0 ELSE f[n] + SumTo(f, n - 1)

\* Sum of a function over 0..6 (Array.reduce over a 7-entry array)
SumWeek(f) == SumTo(f, 6)

Min2(a, b) == IF a < b THEN a ELSE b
Max2(a, b) == IF a > b THEN a ELSE b

(***************************************************************************)
(* distributePostsAcrossWeek  (src/lib/planning/index.ts 581-669)          *)
(***************************************************************************)
\* Largest total the distributor is exercised with.  For totals below 75 the
\* integer quotient (weights10[i] * remaining) \div 75 equals the source's
\* Math.floor((weights[i] / totalWeight) * remaining) in IEEE doubles.
MaxTotal == 60

\* weights = [0.7, 1.2, 1.2, 1.2, 1.2, 1.1, 0.9], in tenths
weights10 == [d \in Days |->
                CASE d = 0 -> 7 [] d = 5 -> 11 [] d = 6 -> 9 [] OTHER -> 12]

\* totalWeight = weights.reduce((a, b) => a + b, 0), in tenths
totalWeight10 == SumWeek(weights10)

ZeroWeek == [d \in Days |-> 0]

\* The first pass of both weighted branches: for i = 0..6,
\* count = floor(weights[i] / totalWeight * remaining); remaining -= count.
RECURSIVE FirstPass(_, _, _)
FirstPass(i, dist, remaining) ==
    IF i > 6 THEN [dist |-> dist, remaining |-> remaining]
    ELSE LET count == (weights10[i] * remaining) \div totalWeight10
         IN  FirstPass(i + 1, [dist EXCEPT ![i] = count], remaining - count)

\* Index of the best day by weights[i] / (distribution[i] + 1), first maximum
\* (strict >), scanning i = 0..6 from bestIndex = 0, bestScore = -1.
RECURSIVE BestByScore(_, _, _)
BestByScore(dist, i, best) ==
    IF i > 6 THEN best
    ELSE IF weights10[i] * (dist[best] + 1) > weights10[best] * (dist[i] + 1)
         THEN BestByScore(dist, i + 1, i)
         ELSE BestByScore(dist, i + 1, best)

\* The remainder loop of the 1..3 branch: Friday, then Saturday, when empty,
\* otherwise the day with the best weight per post.
RECURSIVE SmallRemainder(_, _)
SmallRemainder(dist, remaining) ==
    IF remaining <= 0 THEN dist
    ELSE IF dist[5] = 0 THEN SmallRemainder([dist EXCEPT ![5] = 1], remaining - 1)
    ELSE IF dist[6] = 0 THEN SmallRemainder([dist EXCEPT ![6] = 1], remaining - 1)
    ELSE LET b == BestByScore(dist, 1, 0)
         IN  SmallRemainder([dist EXCEPT ![b] = dist[b] + 1], remaining - 1)

MinCount(dist) == CHOOSE m \in {dist[d] : d \in Days} :
                      \A d \in Days : m <= dist[d]

\* Among the days with the minimum count, the first one of the highest weight.
RECURSIVE BestOfMin(_, _, _, _)
BestOfMin(dist, m, i, best) ==
    IF i > 6 THEN best
    ELSE IF dist[i] = m /\ (best = -1 \/ weights10[i] > weights10[best])
         THEN BestOfMin(dist, m, i + 1, i)
         ELSE BestOfMin(dist, m, i + 1, best)

LargeRemainderNone(dist, remaining) == dist

\* The remainder loop of the 6+ branch.
RECURSIVE LargeRemainder(_, _)
LargeRemainder(dist, remaining) ==
    IF remaining <= 0 THEN dist
    ELSE LET b == BestOfMin(dist, MinCount(dist), 0, -1)
         IN  LargeRemainder([dist EXCEPT ![b] = dist[b] + 1], remaining - 1)

DistFiveMonToFri == [d \in Days |-> IF d \in 1..5 THEN 1 ELSE 0]

\* totalPosts === 5: Mon, Tue, Wed, Fri, Sat
DistFive == [d \in Days |-> IF d \in {1, 2, 3, 5, 6} THEN 1 ELSE 0]

DistFourTueToFri == [d \in Days |-> IF d \in 2..5 THEN 1 ELSE 0]

\* totalPosts === 4: Mon-Thu
DistFour == [d \in Days |-> IF d \in 1..4 THEN 1 ELSE 0]

DistSmall(total) ==
    LET fp == FirstPass(0, ZeroWeek, total)
    IN  SmallRemainder(fp.dist, fp.remaining)

DistLarge(total) ==
    LET fp == FirstPass(0, ZeroWeek, total)
    IN  LargeRemainder(fp.dist, fp.remaining)

distributePostsAcrossWeek(total) ==
    IF total <= 5
    THEN IF total = 5 THEN DistFive
         ELSE IF total = 4 THEN DistFour
         ELSE DistSmall(total)
    ELSE DistLarge(total)

(***************************************************************************)
(* Text.  A text is a sequence of tokens, the pieces String.split(/\s+/)   *)
(* yields; a token is a word and the punctuation that trails it.  Words    *)
(* are atoms, so what the source reads off their characters (the lower     *)
(* case form, the shorter words a word starts with or contains) is tabled  *)
(* for the words that occur.                                               *)
(***************************************************************************)
W(w) == [w |-> w, p |-> ""]
WQ(w) == [w |-> w, p |-> "?"]

\* String.toLowerCase on a word
lowerWord(w) ==
    CASE w = "How" -> "how" [] w = "My" -> "my" [] w = "Tips" -> "tips"
      [] w = "Buy" -> "buy" [] w = "What" -> "what" [] w = "Discussion" -> "discussion"
      [] w = "Why" -> "why" [] w = "Expert" -> "expert"
      [] OTHER -> w

toLowerCase(text) == [i \in DOMAIN text |-> [w |-> lowerWord(text[i].w), p |-> text[i].p]]

\* the lower-case words a lower-case word has as a proper prefix
PrefixWords(w) ==
    CASE w = "buyers" -> {"buy"} [] w = "startups" -> {"startup"}
      [] w = "founders" -> {"founder"} [] OTHER -> {}

\* the lower-case words a lower-case word contains without being equal to it
SubWords(w) == PrefixWords(w)

\* String.includes for a phrase of one or more tokens (both sides lower-cased):
\* a one-token phrase may sit inside a token; a longer phrase must end one
\* token, equal the tokens between, and start the last one.
includes(text, phrase) ==
    LET n == Len(phrase)
        inTok(t, q) == IF q.p = "" THEN q.w = t.w \/ q.w \in SubWords(t.w)
                       ELSE q = t
        endsTok(t, q) == q = t
        startsTok(t, q) == IF q.p = "" THEN q.w = t.w \/ q.w \in PrefixWords(t.w)
                           ELSE q = t
    IN  IF n = 0 THEN TRUE
        ELSE IF n = 1 THEN \E i \in DOMAIN text : inTok(text[i], phrase[1])
        ELSE \E i \in 1..(Len(text) - n + 1) :
                /\ endsTok(text[i], phrase[1])
                /\ \A j \in 2..(n - 1) : text[i + j - 1] = phrase[j]
                /\ startsTok(text[i + n - 1], phrase[n])

\* Stable sort by relevance_score, descending (Array.sort((a, b) => b - a))
SortByRelevance(s) ==
    LET n == Len(s)
        rank(i) == 1 + Cardinality({j \in 1..n :
                        \/ s[j].relevance_score > s[i].relevance_score
                        \/ s[j].relevance_score = s[i].relevance_score /\ j < i})
    IN  [k \in 1..n |-> s[CHOOSE i \in 1..n : rank(i) = k]]

\* Array.slice(0, n)
Slice(s, n) == SubSeq(s, 1, Min2(n, Len(s)))

\* Array.filter
RECURSIVE SelectSeqIdx(_, _, _)
SelectSeqIdx(s, keep, i) ==
    IF i > Len(s) THEN <<>>
    ELSE (IF i \in keep THEN <<s[i]>> ELSE <<>>) \o SelectSeqIdx(s, keep, i + 1)

(***************************************************************************)
(* generateTopics  (src/QUICK_START.md 276-451, the topics module)         *)
(***************************************************************************)
\* salesyKeywords of the filter
salesyKeywords ==
    << <<W("buy")>>, <<W("purchase")>>, <<W("sign"), W("up")>>,
       <<W("try"), W("now")>>, <<W("get"), W("started")>> , <<W("free"), W("trial")>> >>

\* salesyKeywords of calculateRelevanceScore (the first four only)
salesyPenaltyKeywords == SubSeq(salesyKeywords, 1, 4)

IsSalesy(topic) ==
    \E k \in DOMAIN salesyKeywords : includes(toLowerCase(topic), salesyKeywords[k])

\* daysSince < 28
RecentDays == 28
\* .slice(0, 10) of the recent topics
RecentLimit == 10

\* recentTopics: the topics of the history rows with a date less than 28 days
\* back, in row order, cut to the first 10
recentTopics(history) ==
    LET keep == {i \in DOMAIN history :
                    history[i].daysSince # -1 /\ history[i].daysSince < RecentDays}
        kept == SelectSeqIdx(history, keep, 1)
    IN  Slice([i \in DOMAIN kept |-> kept[i].topic], RecentLimit)

\* calculateSimilarity as a pair <<intersection.length, union.length>>:
\* the words of str1 that occur in str2 (with their repetitions) over the
\* number of distinct words of both
calculateSimilarity(str1, str2) ==
    LET words1 == toLowerCase(str1)
        words2 == toLowerCase(str2)
        set1 == {words1[i] : i \in DOMAIN words1}
        set2 == {words2[i] : i \in DOMAIN words2}
        inter == Cardinality({i \in DOMAIN words1 : words1[i] \in set2})
    IN  <<inter, Cardinality(set1 \cup set2)>>

\* similarity > 0.7
TooSimilar(sim) == sim[1] * 10 > sim[2] * 7

\* calculateRelevanceScore, in tenths
calculateRelevanceScore(topic, comp) ==
    LET t == toLowerCase(topic)
        pains == Cardinality({i \in DOMAIN comp.pain_points :
                    includes(t, toLowerCase(comp.pain_points[i]))})
        users == Cardinality({i \in DOMAIN comp.target_users :
                    includes(t, toLowerCase(comp.target_users[i]))})
        sales == Cardinality({k \in DOMAIN salesyPenaltyKeywords :
                    includes(t, salesyPenaltyKeywords[k])})
    IN  Min2(10, Max2(0, 5 + 2 * pains + users - 3 * sales))

postTypes == <<"question", "story", "advice">>

\* generateFallbackTopics: templates cycling through post types and pain points
FallbackTopic(comp, i) ==
    LET n == Len(comp.pain_points)
        painPoint == IF n = 0 THEN <<W("challenges")>>
                     ELSE comp.pain_points[(i % n) + 1]
        postType == postTypes[(i % 3) + 1]
        last == painPoint[Len(painPoint)]
        asked == [painPoint EXCEPT ![Len(painPoint)] = [w |-> last.w, p |-> "?"]]
    IN  [topic |-> CASE postType = "question" ->
                          <<W("How"), W("do"), W("you"), W("handle")>> \o asked
                     [] postType = "story" ->
                          <<W("My"), W("experience"), W("with")>> \o painPoint
                     [] OTHER ->
                          <<W("Tips"), W("for"), W("dealing"), W("with")>> \o painPoint,
         relevance_score |-> 6,
         post_type |-> postType]

generateFallbackTopics(comp, n) == [k \in 1..n |-> FallbackTopic(comp, k - 1)]

\* the first filter of the success path
PassesSalesy(t) == ~IsSalesy(t.topic)

PassesRecentNone(t, recent) == TRUE

\* the second filter of the success path
PassesRecent(t, recent) ==
    ~\E r \in DOMAIN recent : TooSimilar(calculateSimilarity(t.topic, recent[r]))

\* generateTopics: answer is the collaborator's outcome, [ok, topics]
generateTopics(comp, history, n, answer) ==
    IF ~answer.ok THEN generateFallbackTopics(comp, n)
    ELSE
        LET recent == recentTopics(history)
            raw == Slice(answer.topics, n * 2)
            mapped == [i \in DOMAIN raw |->
                        [topic |-> raw[i].topic,
                         relevance_score |-> calculateRelevanceScore(raw[i].topic, comp),
                         post_type |-> raw[i].post_type]]
            keep == {i \in DOMAIN mapped :
                        PassesSalesy(mapped[i]) /\ PassesRecent(mapped[i], recent)}
        IN  Slice(SortByRelevance(SelectSeqIdx(mapped, keep, 1)), n)

(***************************************************************************)
(* Dates.  An instant is a number of hours since 00:00 UTC of the Sunday   *)
(* that starts the planned week; a date string 'yyyy-MM-dd' is the number  *)
(* of its day, counted from that Sunday.  The server's local time is tz    *)
(* hours ahead of UTC.                                                     *)
(***************************************************************************)
\* Math.trunc(a / b) for b > 0
TruncDiv(a, b) == IF a >= 0 THEN a \div b ELSE -((-a) \div b)

\* addDays(weekStart, d): local midnight of day d
LocalMidnight(d) == 24 * d - tz

\* new Date('yyyy-MM-dd'): midnight UTC of that date
ParseDate(date) == 24 * date

\* date.toISOString().split('T')[0]: the UTC date of an instant
IsoDate(instant) == instant \div 24

\* format(date, 'yyyy-MM-dd'): the local date of an instant
LocalDate(instant) == (instant + tz) \div 24

\* differenceInDays(later, earlier): full days, truncated towards zero
differenceInDays(later, earlier) == TruncDiv(later - earlier, 24)

\* getWeekStart(date): the same local time of day on the Sunday on or before
getWeekStart(instant) == instant - 24 * (LocalDate(instant) % 7)

(***************************************************************************)
(* selectSubreddit  (src/lib/planning/subreddits.ts)                       *)
(*                                                                         *)
(* A subreddit is [id, name, rules, min_cooldown_days, max_posts_per_week, *)
(* size_category]: name holds the words of the name after the r/ prefix,   *)
(* split at - _ and blanks; rules holds those of the three phrases the     *)
(* compliance check looks for that the rule text contains.  An activity    *)
(* row is [week_start_date, last_post_date, posts_this_week]; all rows     *)
(* belong to the one company of the model.                                 *)
(* Scores are integers in units of 1/SCALE.                                *)
(***************************************************************************)
\* a common multiple of the denominators 1..7 that the sub-scores divide by
DenLcm == 420
\* sub-scores are in units of 1/(100 * DenLcm), weighted sums in 1/(1000 * DenLcm),
\* final scores in 1/SCALE
SubUnit == 100 * DenLcm
SCALE == 10000 * DenLcm

NoActivity == [none |-> TRUE]
NoDate == -1000

\* words of at most 2 characters (k.length > 2 fails)
ShortWords == {"ai", "ux"}

relevantTerms == <<"startup", "business", "marketing", "entrepreneur", "saas">>

\* subredditKeywords
subredditKeywords(subreddit) ==
    LET nm == subreddit.name
    IN  SelectSeqIdx(nm, {i \in DOMAIN nm : lowerWord(nm[i]) \notin ShortWords}, 1)

\* calculateRelevanceScore(subreddit, topic), in 1/SubUnit
subredditRelevance(subreddit, topic) ==
    LET topicLower == toLowerCase(topic.topic)
        kws == subredditKeywords(subreddit)
        matches == Cardinality({i \in DOMAIN kws :
                        includes(topicLower, <<W(lowerWord(kws[i]))>>)})
        nameLower == [i \in DOMAIN subreddit.name |-> W(lowerWord(subreddit.name[i]))]
        terms == Cardinality({k \in DOMAIN relevantTerms :
                        /\ includes(nameLower, <<W(relevantTerms[k])>>)
                        /\ includes(topicLower, <<W(relevantTerms[k])>>)})
        \* keywordScore * 0.6 + nameScore * 0.4 + 0.3, nameScore = 0.2 per term
    IN  Min2(SubUnit, (60 * DenLcm * matches) \div Max2(1, Len(kws))
                        + 8 * DenLcm * terms + 30 * DenLcm)

\* checkCooldown, in 1/SubUnit
checkCooldown(subreddit, activity, targetDate) ==
    IF activity = NoActivity \/ activity.last_post_date = NoDate THEN SubUnit
    ELSE LET daysSince == differenceInDays(targetDate, ParseDate(activity.last_post_date))
             cd == subreddit.min_cooldown_days
             daysRemaining == cd - daysSince
         IN  IF daysSince >= cd THEN SubUnit
             ELSE IF cd = 0 THEN 30 * DenLcm      \* 1 - Infinity, floored at 0.3
             ELSE Max2(30 * DenLcm, SubUnit - (70 * DenLcm * daysRemaining) \div cd)

\* isSameWeek of checkFrequency
isSameWeek(activity, targetDate) ==
    ParseDate(activity.week_start_date) = getWeekStart(targetDate)

\* the score at or over the weekly limit: 0.2
FrequencyAtLimit == 20 * DenLcm

\* checkFrequency, in 1/SubUnit
checkFrequency(subreddit, activity, targetDate) ==
    IF activity = NoActivity THEN SubUnit
    ELSE IF ~isSameWeek(activity, targetDate) THEN SubUnit
    ELSE LET remaining == subreddit.max_posts_per_week - activity.posts_this_week
         IN  IF remaining <= 0 THEN FrequencyAtLimit
             ELSE (SubUnit * remaining) \div subreddit.max_posts_per_week

\* checkSizeAppropriateness, in 1/SubUnit
checkSizeAppropriateness(subreddit, topic) ==
    IF subreddit.size_category = "small"
    THEN (IF topic.post_type = "question" THEN SubUnit ELSE 70 * DenLcm)
    ELSE IF subreddit.size_category = "large"
    THEN (IF topic.post_type # "question" THEN SubUnit ELSE 70 * DenLcm)
    ELSE 80 * DenLcm

\* checkRuleCompliance
checkRuleCompliance(subreddit, topic) ==
    ~ \/ topic.post_type = "story" /\ "no personal stories" \in subreddit.rules
      \/ topic.post_type = "advice" /\ "no advice posts" \in subreddit.rules
      \/ /\ "no self-promotion" \in subreddit.rules
         /\ includes(toLowerCase(topic.topic), <<W("my"), W("product")>>)

\* the score of one subreddit, in 1/SCALE
SubredditScoreOf(subreddit, activity, topic, targetDate) ==
    LET sum == 4 * subredditRelevance(subreddit, topic)
               + 3 * checkCooldown(subreddit, activity, targetDate)
               + 2 * checkFrequency(subreddit, activity, targetDate)
               + checkSizeAppropriateness(subreddit, topic)
        score == IF checkRuleCompliance(subreddit, topic) THEN 10 * sum ELSE 3 * sum
    IN  [subreddit_id |-> subreddit.id, score |-> Max2(0, Min2(SCALE, score))]

\* Stable sort by score, descending (Array.sort((a, b) => b.score - a.score))
SortByScore(s) ==
    LET n == Len(s)
        rank(i) == 1 + Cardinality({j \in 1..n :
                        \/ s[j].score > s[i].score
                        \/ s[j].score = s[i].score /\ j < i})
    IN  [k \in 1..n |-> s[CHOOSE i \in 1..n : rank(i) = k]]

\* the fallback threshold 0.1, and the size of the fallback list
LowScore == SCALE \div 10
FallbackTop == 3

ReturnedOfSortedAll(sorted) == sorted

\* what selectSubreddit returns of the sorted scores
ReturnedOfSorted(sorted) ==
    IF Len(sorted) = 0 THEN <<>>
    ELSE IF sorted[1].score < LowScore
    THEN Slice(sorted, Min2(FallbackTop, Len(sorted)))
    ELSE LET valid == SelectSeqIdx(sorted, {i \in DOMAIN sorted : sorted[i].score > 0}, 1)
         IN  IF Len(valid) > 0 THEN valid ELSE <<sorted[1]>>

selectSubreddit(subs, activities, topic, targetDate) ==
    LET scores == [i \in DOMAIN subs |->
                    SubredditScoreOf(subs[i], activities[subs[i].id],
                                     topic, targetDate)]
    IN  ReturnedOfSorted(SortByScore(scores))

(***************************************************************************)
(* assignPersona  (src/lib/planning/personas.ts)                           *)
(*                                                                         *)
(* A persona is [id, tone, expertise]: expertise is a sequence of phrases. *)
(* A post is [id, calendar_id, day_of_week, subreddit_id, topic,           *)
(* persona_id, post_type, order_in_day, created_at]; created_at is an      *)
(* instant.  Sub-scores are in 1/SubUnit, the score in 1/(10 * SubUnit).   *)
(***************************************************************************)
RECURSIVE SumSeq(_)
SumSeq(s) == IF Len(s) = 0 THEN 0 ELSE s[1] + SumSeq(Tail(s))

\* relatedTerms of calculateExpertiseMatch
relatedTerms(areaLower) ==
    CASE areaLower = <<W("marketing")>> ->
            << <<W("growth")>>, <<W("acquisition")>>, <<W("conversion")>>, <<W("campaign")>> >>
      [] areaLower = <<W("sales")>> ->
            << <<W("revenue")>>, <<W("clients")>>, <<W("prospects")>>, <<W("pipeline")>> >>
      [] areaLower = <<W("product")>> ->
            << <<W("feature")>>, <<W("development")>>, <<W("roadmap")>>,
               <<W("user"), W("experience")>> >>
      [] areaLower = <<W("startup")>> ->
            << <<W("founder")>>, <<W("funding")>>, <<W("mvp")>>, <<W("launch")>> >>
      [] OTHER -> <<>>

\* calculateExpertiseMatch: matches counts 1 per area found in the topic and
\* 0.5 per related term found; the count is kept in halves
calculateExpertiseMatch(persona, topic) ==
    IF Len(persona.expertise) = 0 THEN 50 * DenLcm
    ELSE
        LET topicLower == toLowerCase(topic.topic)
            halves(a) ==
                LET areaLower == toLowerCase(persona.expertise[a])
                    rel == relatedTerms(areaLower)
                IN  (IF includes(topicLower, areaLower) THEN 2 ELSE 0)
                    + Cardinality({k \in DOMAIN rel : includes(topicLower, rel[k])})
            matches2 == SumSeq([a \in DOMAIN persona.expertise |-> halves(a)])
        IN  Min2(SubUnit, (SubUnit * matches2) \div (2 * Len(persona.expertise)))

\* tonePostTypeMap[toneLower] || ['question', 'story', 'advice']
tonePostTypeMap(toneLower) ==
    CASE toneLower = "helpful" -> {"advice", "question"}
      [] toneLower = "curious" -> {"question", "story"}
      [] toneLower = "experienced" -> {"story", "advice"}
      [] toneLower = "expert" -> {"advice"}
      [] toneLower = "beginner" -> {"question"}
      [] toneLower = "friendly" -> {"story", "question"}
      [] OTHER -> {"question", "story", "advice"}

\* calculateToneMatch
calculateToneMatch(persona, topic) ==
    IF topic.post_type \in tonePostTypeMap(lowerWord(persona.tone))
    THEN SubUnit ELSE 60 * DenLcm

\* calculateRotationScore: the persona's posts created in the 7 days up to
\* the target date
calculateRotationScore(persona, recent, targetDate) ==
    LET cutoffDate == targetDate - 24 * 7
        recentCount == Cardinality({k \in DOMAIN recent :
                            /\ recent[k].persona_id = persona.id
                            /\ recent[k].created_at >= cutoffDate})
    IN  CASE recentCount = 0 -> SubUnit
          [] recentCount = 1 -> 80 * DenLcm
          [] recentCount = 2 -> 50 * DenLcm
          [] OTHER -> 20 * DenLcm

\* checkSubredditCollision: TRUE (the source's 1.0) when the persona has no
\* post in the subreddit created in the 3 days up to the target date
checkSubredditCollision(persona, recent, subredditId, targetDate) ==
    LET cutoffDate == targetDate - 24 * 3
    IN  ~\E k \in DOMAIN recent :
            /\ recent[k].persona_id = persona.id
            /\ recent[k].subreddit_id = subredditId
            /\ recent[k].created_at >= cutoffDate

\* one entry of assignments
PersonaAssignmentOf(persona, topic, recent, targetDate, subredditId) ==
    LET collision == checkSubredditCollision(persona, recent, subredditId, targetDate)
        score == 4 * calculateExpertiseMatch(persona, topic)
                 + 3 * calculateToneMatch(persona, topic)
                 + 2 * calculateRotationScore(persona, recent, targetDate)
                 + (IF collision THEN SubUnit ELSE 0)
    IN  [persona_id |-> persona.id,
         score |-> Max2(0, Min2(10 * SubUnit, score)),
         collision |-> collision]

NoAssignment == [none |-> TRUE]

\* the assignments, had none been filtered out
allAssignments(assignments) == assignments

\* the assignments without a collision
validAssignments(assignments) ==
    SelectSeqIdx(assignments, {k \in DOMAIN assignments : assignments[k].collision}, 1)

assignPersona(pers, topic, recent, targetDate, subredditId) ==
    IF Len(pers) = 0 THEN NoAssignment
    ELSE
        LET assignments == [k \in DOMAIN pers |->
                PersonaAssignmentOf(pers[k], topic, recent, targetDate, subredditId)]
            valid == validAssignments(assignments)
        IN  IF Len(valid) = 0 THEN SortByScore(assignments)[1]
            ELSE SortByScore(valid)[1]

(***************************************************************************)
(* updateSubredditActivity  (src/lib/planning/subreddits.ts 228-258)       *)
(* A row of subreddit_activity is [id, subreddit_id, week_start_date,      *)
(* last_post_date, posts_this_week]; id 0 is the empty id of a row the     *)
(* database has not stored yet.                                            *)
(***************************************************************************)
EmptyId == 0

\* activities is the activity map by subreddit id (NoActivity: no entry)
updateSubredditActivity(subredditId, postDate, activities) ==
    LET weekStart == IsoDate(getWeekStart(postDate))
        a == activities[subredditId]
        existing == a # NoActivity /\ a.week_start_date = weekStart
    IN  IF existing
        THEN [a EXCEPT !.last_post_date = IsoDate(postDate),
                       !.posts_this_week = a.posts_this_week + 1]
        ELSE [id |-> EmptyId, subreddit_id |-> subredditId,
              week_start_date |-> weekStart,
              last_post_date |-> IsoDate(postDate),
              posts_this_week |-> 1]

(***************************************************************************)
(* Posting strategy  (src/lib/planning/strategy.ts)                        *)
(***************************************************************************)
strategyProgression ==
    <<"awareness", "authority", "subtle_product", "value", "engagement">>

\* complementaryMap: the two strategies getComplementaryStrategy draws from
complementaryMap(primary) ==
    CASE primary = "awareness" -> {"value", "engagement"}
      [] primary = "authority" -> {"value", "awareness"}
      [] primary = "subtle_product" -> {"value", "authority"}
      [] primary = "value" -> {"engagement", "awareness"}
      [] OTHER -> {"value", "authority"}

\* preferredTypes of getPostTypeForStrategy, in order
preferredTypes(strategy) ==
    CASE strategy = "awareness" -> <<"question", "story">>
      [] strategy = "authority" -> <<"advice", "story">>
      [] strategy = "subtle_product" -> <<"story", "advice">>
      [] strategy = "value" -> <<"advice", "question">>
      [] OTHER -> <<"question", "story">>

\* a progression that every day of the week walks, with posts or without
primaryStrategyByDay(dayDistribution, day) ==
    strategyProgression[(day % Len(strategyProgression)) + 1]

\* the primary strategy of a day: the days with posts walk the progression
primaryStrategy(dayDistribution, day) ==
    LET strategyIndex == Cardinality({d \in 0..(day - 1) : dayDistribution[d] > 0})
    IN  strategyProgression[(strategyIndex % Len(strategyProgression)) + 1]

\* the strategy lists a day can get: the first post of a day gets the primary
\* strategy, each further post a random complementary one
dayStrategies(dayDistribution, day) ==
    LET n == dayDistribution[day]
        primary == primaryStrategy(dayDistribution, day)
    IN  IF n = 0 THEN {<<>>}
        ELSE {<<primary>> \o rest : rest \in [1..(n - 1) -> complementaryMap(primary)]}

\* assignWeeklyStrategy: every map it can return, by day (from day on); a day
\* without posts gets no entry
RECURSIVE assignWeeklyStrategy(_, _)
assignWeeklyStrategy(dayDistribution, day) ==
    IF day > 6 THEN {<<>>}
    ELSE IF dayDistribution[day] = 0 THEN assignWeeklyStrategy(dayDistribution, day + 1)
    ELSE {(day :> s) @@ m : s \in dayStrategies(dayDistribution, day),
                            m \in assignWeeklyStrategy(dayDistribution, day + 1)}

(***************************************************************************)
(* Conversation planner  (src/unnamed/part_001)                            *)
(*                                                                         *)
(* A reply plan map is a sequence of [post_id, persona_id] in insertion    *)
(* order, at most one entry per post.  The intent, the timing, the tone    *)
(* and the emotion of a plan are drawn at random and steer no decision of  *)
(* the planner or the validator; they are left out.                        *)
(***************************************************************************)
\* Array.find(x => x.id === id): its position, 0 when there is none
FindById(s, id) ==
    IF \E j \in DOMAIN s : s[j].id = id
    THEN CHOOSE j \in DOMAIN s : s[j].id = id /\ \A j2 \in 1..(j - 1) : s[j2].id # id
    ELSE 0

\* every ordering of every subset of S: what filter(() => Math.random() <
\* 0.65) followed by the random sort can yield
RECURSIVE Orderings(_)
Orderings(S) ==
    {<<>>} \cup UNION { {<<x>> \o r : r \in Orderings(S \ {x})} : x \in S }

availablePersonasAll(pers, postPersonaId) == pers

\* personas.filter(p => p.id !== postPersonaId)
availablePersonas(pers, postPersonaId) ==
    SelectSeqIdx(pers, {k \in DOMAIN pers : pers[k].id # postPersonaId}, 1)

\* selectReplyPersona: the personas it can return, the top three by score
\* (0.5, +0.3 per expertise area found in the topic, +0.1 unless the tone
\* is exactly 'helpful'), in tenths
topCandidates(available, post) ==
    LET topicLower == toLowerCase(post.topic)
        scored == [k \in DOMAIN available |->
            [persona_id |-> available[k].id,
             score |-> 5 + 3 * Cardinality({a \in DOMAIN available[k].expertise :
                               includes(topicLower, toLowerCase(available[k].expertise[a]))})
                         + (IF available[k].tone # "helpful" THEN 1 ELSE 0)]]
        top == Slice(SortByScore(scored), Min2(3, Len(scored)))
    IN  {top[k].persona_id : k \in DOMAIN top}

\* the reply plan maps the forEach over the shuffled posts can build from
\* position i on
RECURSIVE replyPlansFrom(_, _, _, _)
replyPlansFrom(shuffled, i, pers, ppm) ==
    IF i > Len(shuffled) THEN {<<>>}
    ELSE
        LET post == shuffled[i]
            rest == replyPlansFrom(shuffled, i + 1, pers, ppm)
        IN  IF post.id \notin DOMAIN ppm THEN rest
            ELSE LET available == availablePersonas(pers, ppm[post.id])
                 IN  IF Len(available) = 0 THEN rest
                     ELSE {<<[post_id |-> post.id, persona_id |-> c]>> \o r :
                              c \in topCandidates(available, post), r \in rest}

\* planReplies: every map it can return.  A post with no persona in the map
\* or with no other persona to answer adds nothing wherever the shuffle puts
\* it, so the orderings are taken over the other posts only.
planReplies(plist, pers, ppm) ==
    LET canReply == {k \in DOMAIN plist :
                        /\ plist[k].id \in DOMAIN ppm
                        /\ Len(availablePersonas(pers, ppm[plist[k].id])) > 0}
    IN  UNION { replyPlansFrom([k \in DOMAIN order |-> plist[order[k]]], 1, pers, ppm) :
                    order \in Orderings(canReply) }

\* the limit of replies per persona: currentCount >= 3
MaxRepliesPerPersona == 3

ReplyCapNever(currentCount) == FALSE

ReplyCapReached(currentCount) == currentCount >= MaxRepliesPerPersona

\* validateReplyPlans: the forEach over the plans from position i on
RECURSIVE validateFrom(_, _, _, _, _)
validateFrom(plans, i, plist, ppm, validated) ==
    IF i > Len(plans) THEN validated
    ELSE
        LET plan == plans[i]
            currentCount == Cardinality({k \in DOMAIN validated :
                                validated[k].persona_id = plan.persona_id})
            skip == \/ FindById(plist, plan.post_id) = 0
                    \/ plan.post_id \notin DOMAIN ppm
                    \/ plan.persona_id = ppm[plan.post_id]
                    \/ ReplyCapReached(currentCount)
        IN  validateFrom(plans, i + 1, plist, ppm,
                         IF skip THEN validated ELSE Append(validated, plan))

validateReplyPlans(plans, plist, ppm) == validateFrom(plans, 1, plist, ppm, <<>>)

\* the reply rows the loop over validatedReplies stores: an entry is passed
\* over when its post or its persona is not found or when its insert fails
\* (failed: the positions whose insert fails)
persistReplies(validated, plist, pers, failed) ==
    SelectSeqIdx(validated,
        {k \in DOMAIN validated :
            /\ FindById(plist, validated[k].post_id) # 0
            /\ FindById(pers, validated[k].persona_id) # 0
            /\ k \notin failed}, 1)

(***************************************************************************)
(* checkSpamAndSafety  (src/unnamed/part_000)                              *)
(*                                                                         *)
(* A warning is [type, severity, message, subreddit, text]: message names  *)
(* the message template, subreddit the id of the subreddit it is about (0: *)
(* none) and text the topic or phrase it quotes.  The risk score is kept   *)
(* in halves.                                                              *)
(***************************************************************************)
\* the distinct values of a sequence in order of first occurrence (the key
\* order of a Map filled by a forEach)
Keys(s) == SelectSeqIdx(s, {i \in DOMAIN s : \A j \in 1..(i - 1) : s[j] # s[i]}, 1)

CountOf(s, x) == Cardinality({i \in DOMAIN s : s[i] = x})

RECURSIVE Flatten(_)
Flatten(ss) == IF Len(ss) = 0 THEN <<>> ELSE ss[1] \o Flatten(Tail(ss))

\* normalizeTopic: lower case, punctuation removed
normalizeTopic(topic) == [i \in DOMAIN topic |-> W(lowerWord(topic[i].w))]

OverLimitAtLeast(count, max) == count >= max

\* count > subreddit.max_posts_per_week
OverLimit(count, max) == count > max

\* 1. overposting per subreddit
overpostingWarnings(plist, subs) ==
    LET ids == [k \in DOMAIN plist |-> plist[k].subreddit_id]
        keys == Keys(ids)
        one(subredditId) ==
            LET count == CountOf(ids, subredditId)
                found == FindById(subs, subredditId)
            IN  IF found = 0 THEN <<>>
                ELSE LET subreddit == subs[found]
                         max == subreddit.max_posts_per_week
                         high == 2 * count > 3 * max
                     IN  IF OverLimit(count, max)
                         THEN <<[w |-> [type |-> "overposting",
                                        severity |-> IF high THEN "high" ELSE "medium",
                                        message |-> "Risk of overposting",
                                        subreddit |-> subredditId, text |-> <<>>],
                                 risk2 |-> IF high THEN 6 ELSE 4]>>
                         ELSE <<>>
    IN  Flatten([k \in DOMAIN keys |-> one(keys[k])])

\* 2. persona distribution
personaWarnings(plist) ==
    LET ids == [k \in DOMAIN plist |-> plist[k].persona_id]
        keys == Keys(ids)
        counts == {CountOf(ids, keys[k]) : k \in DOMAIN keys}
        max == CHOOSE c \in counts : \A c2 \in counts : c2 <= c
        min == CHOOSE c \in counts : \A c2 \in counts : c <= c2
    IN  IF Len(keys) > 1 /\ 10 * (max - min) > 4 * Len(plist)
        THEN <<[w |-> [type |-> "persona_imbalance", severity |-> "medium",
                       message |-> "Uneven persona distribution", subreddit |-> 0, text |-> <<>>],
                risk2 |-> 4]>>
        ELSE <<>>

\* 3. topic repetition within the week
topicWarnings(plist) ==
    LET topics == [k \in DOMAIN plist |-> normalizeTopic(plist[k].topic)]
        keys == Keys(topics)
        one(topic) ==
            LET count == CountOf(topics, topic)
            IN  IF count > 1
                THEN <<[w |-> [type |-> "topic_repetition",
                               severity |-> IF count > 2 THEN "high" ELSE "medium",
                               message |-> "Topic appears several times this week",
                               subreddit |-> 0, text |-> topic],
                        risk2 |-> IF count > 2 THEN 4 ELSE 2]>>
                ELSE <<>>
    IN  Flatten([k \in DOMAIN keys |-> one(keys[k])])

\* detectWordingPatterns: the phrases of three consecutive words of more than
\* 4 characters that occur more than once, with their counts (the sort by
\* count is stable and moves no warning across the threshold)
detectWordingPatterns(plist) ==
    LET phrasesOf(topic) ==
            LET text == toLowerCase(topic)
                words == SelectSeqIdx(text, {i \in DOMAIN text :
                                              Len(text[i].w) + Len(text[i].p) > 4}, 1)
            IN  [i \in 1..(Len(words) - 2) |-> <<words[i], words[i + 1], words[i + 2]>>]
        all == Flatten([k \in DOMAIN plist |-> phrasesOf(plist[k].topic)])
        keys == Keys(all)
        patterns == SelectSeqIdx(keys, {k \in DOMAIN keys : CountOf(all, keys[k]) > 1}, 1)
        counted == [k \in DOMAIN patterns |->
                        [text |-> patterns[k], score |-> CountOf(all, patterns[k])]]
    IN  SortByScore(counted)

\* a warning for every pattern detectWordingPatterns returns
wordingWarningsAll(plist) ==
    LET patterns == detectWordingPatterns(plist)
    IN  [k \in DOMAIN patterns |->
            [w |-> [type |-> "wording_pattern", severity |-> "low",
                    message |-> "Repeated wording pattern detected",
                    subreddit |-> 0, text |-> patterns[k].text],
             risk2 |-> 2]]

\* 4. wording patterns
wordingWarnings(plist) ==
    LET patterns == detectWordingPatterns(plist)
        one(pattern) ==
            IF pattern.score > 2
            THEN <<[w |-> [type |-> "wording_pattern", severity |-> "low",
                           message |-> "Repeated wording pattern detected",
                           subreddit |-> 0, text |-> pattern.text],
                    risk2 |-> 2]>>
            ELSE <<>>
    IN  Flatten([k \in DOMAIN patterns |-> one(patterns[k])])

\* .slice(-20)
LastPosts == 20

\* 5. repetition of a topic of the previous weeks' last 20 posts
previousWeeksWarnings(plist, previous) ==
    LET n == Len(previous)
        last == SubSeq(previous, Max2(1, n - LastPosts + 1), n)
        recent == {normalizeTopic(last[k].topic) : k \in DOMAIN last}
        one(post) ==
            IF normalizeTopic(post.topic) \in recent
            THEN <<[w |-> [type |-> "topic_repetition", severity |-> "low",
                           message |-> "Topic similar to recent plist",
                           subreddit |-> 0, text |-> post.topic],
                    risk2 |-> 1]>>
            ELSE <<>>
    IN  IF n = 0 THEN <<>> ELSE Flatten([k \in DOMAIN plist |-> one(plist[k])])

\* Stable sort by day_of_week, ascending
SortByDay(s) ==
    LET n == Len(s)
        rank(i) == 1 + Cardinality({j \in 1..n :
                        \/ s[j].day_of_week < s[i].day_of_week
                        \/ s[j].day_of_week = s[i].day_of_week /\ j < i})
    IN  [k \in 1..n |-> s[CHOOSE i \in 1..n : rank(i) = k]]

\* 6. consecutive posts of the week in the same subreddit less than 2 days
\* apart, when the subreddit's cooldown is over 1 day
clusteringWarnings(plist, subs) ==
    LET sortedPosts == SortByDay(plist)
        one(i) ==
            LET found == FindById(subs, sortedPosts[i].subreddit_id)
            IN  IF /\ sortedPosts[i].subreddit_id = sortedPosts[i - 1].subreddit_id
                   /\ sortedPosts[i].day_of_week - sortedPosts[i - 1].day_of_week < 2
                   /\ found # 0
                   /\ subs[found].min_cooldown_days > 1
                THEN <<[w |-> [type |-> "overposting", severity |-> "medium",
                               message |-> "Posts too close together",
                               subreddit |-> sortedPosts[i].subreddit_id,
                               text |-> <<>>],
                        risk2 |-> 4]>>
                ELSE <<>>
    IN  Flatten([i \in 1..(Len(sortedPosts) - 1) |-> one(i + 1)])

\* checkSpamAndSafety (replies and personas are not read)
checkSpamAndSafety(plist, subs, previous) ==
    LET all == overpostingWarnings(plist, subs)
               \o personaWarnings(plist)
               \o topicWarnings(plist)
               \o wordingWarnings(plist)
               \o previousWeeksWarnings(plist, previous)
               \o clusteringWarnings(plist, subs)
        warnings == [k \in DOMAIN all |-> all[k].w]
        riskScore2 == SumSeq([k \in DOMAIN all |-> all[k].risk2])
    IN  [warnings |-> warnings,
         riskScore2 |-> Min2(20, riskScore2),
         passed |-> /\ riskScore2 < 10
                    /\ ~\E k \in DOMAIN warnings : warnings[k].severity = "high"]

(***************************************************************************)
(* generateCalendar  (src/lib/planning/index.ts 29-576): the pieces of the *)
(* orchestrator that are computed from its arguments                       *)
(***************************************************************************)
\* startOfWeek(date, { weekStartsOn: 0 }): local midnight of the Sunday on or
\* before the local date of the instant
startOfWeek(instant) ==
    LET localDate == LocalDate(instant)
    IN  LocalMidnight(localDate - (localDate % 7))

\* the rows of topic_history as generateTopics reads them at the instant now:
\* whole days since last_used_date (a date ahead of now counts as 0 days)
HistoryAt(rows, instant) ==
    [i \in DOMAIN rows |->
        [topic |-> rows[i].topic,
         daysSince |-> IF rows[i].last_used_date = NoDate THEN -1
                       ELSE Max2(0, (instant - ParseDate(rows[i].last_used_date)) \div 24)]]

\* the posts of the calendars whose id is in ids, in table order
PostsOfCalendars(allPosts, ids) ==
    SelectSeqIdx(allPosts, {k \in DOMAIN allPosts : allPosts[k].calendar_id \in ids}, 1)

\* .gte('created_at', sevenDaysAgo): the calendars created since 7 days
\* before the week start
recentCalendarIds(calendars, weekStart) ==
    {calendars[k].id : k \in {j \in DOMAIN calendars :
                                calendars[j].created_at >= weekStart - 24 * 7}}

\* .lt('week_start_date', weekStartStr).order(desc).limit(4)
PreviousLimit == 4

previousCalendarIds(calendars, weekStartStr) ==
    LET earlier == {k \in DOMAIN calendars : calendars[k].week_start_date < weekStartStr}
        rank(k) == Cardinality({j \in earlier :
                      \/ calendars[j].week_start_date > calendars[k].week_start_date
                      \/ /\ calendars[j].week_start_date = calendars[k].week_start_date
                         /\ j < k})
    IN  {calendars[k].id : k \in {j \in earlier : rank(j) < PreviousLimit}}

\* activitiesMap after the forEach over the rows loaded for the week
loadActivities(rows, subs, weekStartStr) ==
    [id \in {subs[k].id : k \in DOMAIN subs} |->
        IF \E r \in rows : r.subreddit_id = id /\ r.week_start_date = weekStartStr
        THEN CHOOSE r \in rows : r.subreddit_id = id /\ r.week_start_date = weekStartStr
        ELSE NoActivity]

NoSlot == <<7, 0>>

\* the first slot of the first day from day on that has posts
FirstSlotFrom(dist, day) ==
    IF \E d \in day..6 : dist[d] > 0
    THEN <<CHOOSE d \in day..6 : dist[d] > 0 /\ \A d2 \in day..(d - 1) : dist[d2] = 0, 0>>
    ELSE NoSlot

\* the slot after <<dayOfWeek, i>> in the two nested loops
NextSlot(dist, current) ==
    IF current[2] + 1 < dist[current[1]]
    THEN <<current[1], current[2] + 1>>
    ELSE FirstSlotFrom(dist, current[1] + 1)

\* the topic made up when every generated topic is used
syntheticTopic(comp, preferred) ==
    [topic |-> <<W("Discussion"), W("about")>>
               \o (IF Len(comp.target_users) > 0 THEN comp.target_users[1]
                   ELSE <<W("business")>>)
               \o <<W("challenges")>>,
     relevance_score |-> 5,
     post_type |-> preferred[1]]

\* the topic of a slot: the next unused topic of a preferred type from
\* topicIndex on, else the first unused topic, else the made-up one; with
\* the used set and the index as the loops leave them
pickTopic(topics, used, index, preferred, comp) ==
    LET types == {preferred[k] : k \in DOMAIN preferred}
        fits == {k \in (index + 1)..Len(topics) :
                    topics[k].topic \notin used /\ topics[k].post_type \in types}
        unused == {k \in DOMAIN topics : topics[k].topic \notin used}
    IN  IF fits # {}
        THEN LET k == CHOOSE k \in fits : \A k2 \in fits : k <= k2
             IN  [topic |-> topics[k], used |-> used \cup {topics[k].topic}, index |-> k]
        ELSE IF unused # {}
        THEN LET k == CHOOSE k \in unused : \A k2 \in unused : k <= k2
             IN  [topic |-> topics[k], used |-> used \cup {topics[k].topic},
                  index |-> Max2(index, Len(topics))]
        ELSE [topic |-> syntheticTopic(comp, preferred), used |-> used,
              index |-> Max2(index, Len(topics))]

\* topic_history after .upsert({topic, last_used_date, usage_count: 1},
\* { onConflict: 'company_id,topic' })
upsertTopic(rows, topic, date) ==
    LET row == [topic |-> topic, last_used_date |-> date, usage_count |-> 1]
    IN  IF \E k \in DOMAIN rows : rows[k].topic = topic
        THEN [k \in DOMAIN rows |-> IF rows[k].topic = topic THEN row ELSE rows[k]]
        ELSE Append(rows, row)

\* the id the database gives a stored subreddit_activity row
StoredId == 1

\* subreddit_activity after the upserts of the activity map, onConflict
\* 'subreddit_id,company_id,week_start_date'; a row built by
\* updateSubredditActivity carries the empty id, which the uuid column of
\* the table may refuse (acceptsEmptyId), and the refusal is not looked at
upsertActivities(rows, activities, acceptsEmptyId) ==
    LET sent == {activities[id] : id \in {i \in DOMAIN activities :
                    /\ activities[i] # NoActivity
                    /\ (activities[i].id # EmptyId \/ acceptsEmptyId)}}
        replaced == {r \in rows : \E s \in sent :
                        /\ s.subreddit_id = r.subreddit_id
                        /\ s.week_start_date = r.week_start_date}
    IN  (rows \ replaced) \cup {[s EXCEPT !.id = StoredId] : s \in sent}

(***************************************************************************)
(* Specifications                                                          *)
(***************************************************************************)
TopicIdle ==
    /\ company = <<>> /\ topicHistory = <<>> /\ reqCount = 0
    /\ llm = <<>> /\ generated = <<>> /\ tpc = "idle"

SelIdle ==
    /\ selSubreddits = <<>> /\ selActivities = <<>> /\ selTopic = <<>>
    /\ selDay = 0 /\ selResult = <<>> /\ spc = "idle"

DistIdle == totalPosts = 0 /\ distribution = <<>> /\ dpc = "idle"

NoSpamCheck == [none |-> TRUE]

\* the locals of a run before it starts
RunFresh ==
    /\ error = "" /\ generatedTopics = <<>> /\ calendar = 0
    /\ posts = <<>> /\ postPersonaMap = <<>> /\ usedTopics = {} /\ topicIndex = 0
    /\ activitiesMap = <<>> /\ recentPosts = <<>> /\ previousWeeksPosts = <<>>
    /\ dayPosts = <<>> /\ strategyMap = <<>> /\ slot = NoSlot
    /\ replyPlans = <<>> /\ validatedReplies = <<>> /\ replies = <<>>
    /\ spamCheck = NoSpamCheck /\ failures = 0

RunIdle ==
    /\ now = 0 /\ personas = <<>> /\ subreddits = <<>> /\ params = <<>>
    /\ dbCalendars = <<>> /\ dbPosts = <<>> /\ dbReplies = <<>>
    /\ dbTopicHistory = <<>> /\ dbActivity = {}
    /\ pc = "idle" /\ RunFresh

QualityIdle == qGiven = <<>> /\ quality = <<>> /\ qualityAgain = <<>> /\ qpc = "idle"

AssignIdle == asgSubredditId = 0 /\ assignment = <<>> /\ apc = "idle"

RaceIdle == runs = <<>> /\ writeLog = <<>>

SideIdle == regenerations = 0 /\ QualityIdle /\ AssignIdle /\ RaceIdle

\* ---- the distributor applied to every total of 1..MaxTotal
DistInit ==
    /\ totalPosts \in 1..MaxTotal
    /\ distribution = <<>>
    /\ dpc = "call"
    /\ TopicIdle /\ SelIdle /\ RunIdle /\ SideIdle /\ tz = 0

Distribute ==
    /\ dpc = "call"
    /\ distribution' = distributePostsAcrossWeek(totalPosts)
    /\ dpc' = "done"
    /\ UNCHANGED <<totalPosts, topicVars, tz, selVars, envVars, dbVars, runVars, sideVars>>

DistNext == Distribute

SpecDist == DistInit /\ [][DistNext]_vars

\* ---- generateTopics applied to bounded inputs
\* "How do you handle scaling support?"
TxtHandle == <<W("How"), W("do"), W("you"), W("handle"), W("scaling"), WQ("support")>>
\* "How do you manage scaling customer support?"
TxtManage == <<W("How"), W("do"), W("you"), W("manage"), W("scaling"),
               W("customer"), WQ("support")>>
\* "What tools do you use for customer onboarding today"
TxtToolsToday == <<W("What"), W("tools"), W("do"), W("you"), W("use"), W("for"),
                   W("customer"), W("onboarding"), W("today")>>
\* "what tools do you use for onboarding now": 7 shared words of 10
TxtToolsNow == <<W("what"), W("tools"), W("do"), W("you"), W("use"), W("for"),
                 W("onboarding"), W("now")>>
\* "What tools do you use for customer onboarding now": 8 shared words of 10
TxtToolsNear == <<W("What"), W("tools"), W("do"), W("you"), W("use"), W("for"),
                  W("customer"), W("onboarding"), W("now")>>
\* "Why buyers never sign up"
TxtBuyers == <<W("Why"), W("buyers"), W("never"), W("sign"), W("up")>>
\* "Buy more onboarding time"
TxtBuy == <<W("Buy"), W("more"), W("onboarding"), W("time")>>
\* "My churn story"
TxtChurn == <<W("My"), W("churn"), W("story")>>
\* "weekly team update": a history row unlike every candidate
TxtFiller == <<W("weekly"), W("team"), W("update")>>

\* what the collaborator may propose
CandidatePool ==
    { [topic |-> TxtManage, post_type |-> "question"],
      [topic |-> TxtHandle, post_type |-> "question"],
      [topic |-> TxtToolsNow, post_type |-> "advice"],
      [topic |-> TxtToolsNear, post_type |-> "question"],
      [topic |-> TxtBuyers, post_type |-> "story"],
      [topic |-> TxtBuy, post_type |-> "advice"],
      [topic |-> TxtChurn, post_type |-> "story"] }

PainPointChoices ==
    { <<>>,
      << <<W("churn")>> >>,
      << <<W("scaling"), W("support")>>, <<W("churn")>> >>,
      << <<W("users"), W("who"), W("never"), W("buy")>> >> }

\* longest collaborator answer, largest requested count, and the number of
\* recent rows that may precede the drawn history row
MaxAnswer == 2
MaxCount == 2
MaxFill == 10

SeqsUpTo(S, n) == UNION {[1..k -> S] : k \in 0..n}

HistoryTails ==
    {<<>>} \cup { <<[topic |-> t, daysSince |-> d]>> :
                    t \in {TxtHandle, TxtToolsToday}, d \in {-1, 5, RecentDays} }

TopicsInit ==
    /\ company \in [pain_points : PainPointChoices,
                    target_users : { << <<W("founders")>> >> }]
    /\ \E nFill \in {0, MaxFill - 1, MaxFill}, tail \in HistoryTails :
          topicHistory = [i \in 1..nFill |-> [topic |-> TxtFiller, daysSince |-> 1]] \o tail
    /\ reqCount \in 1..MaxCount
    /\ llm \in {[ok |-> FALSE, topics |-> <<>>]}
               \cup [ok : {TRUE}, topics : SeqsUpTo(CandidatePool, MaxAnswer)]
    /\ generated = <<>>
    /\ tpc = "call"
    /\ DistIdle /\ SelIdle /\ RunIdle /\ SideIdle /\ tz = 0

GenerateTopics ==
    /\ tpc = "call"
    /\ generated' = generateTopics(company, topicHistory, reqCount, llm)
    /\ tpc' = "done"
    /\ UNCHANGED <<company, topicHistory, reqCount, llm, distVars, tz, selVars,
                   envVars, dbVars, runVars, sideVars>>

TopicsNext == GenerateTopics

SpecTopics == TopicsInit /\ [][TopicsNext]_vars

\* the history rows used within the last 28 days, whatever their number
C6_RecentRows == {i \in DOMAIN topicHistory :
                    topicHistory[i].daysSince # -1 /\ topicHistory[i].daysSince < 28}

\* word-set (Jaccard) similarity a/b of two texts as the pair <<a, b>>
C6_WordSet(text) == {[w |-> lowerWord(text[i].w), p |-> text[i].p] : i \in DOMAIN text}
C6_Jaccard(t1, t2) ==
    <<Cardinality(C6_WordSet(t1) \cap C6_WordSet(t2)),
      Cardinality(C6_WordSet(t1) \cup C6_WordSet(t2))>>

C6_FirstTenRecent ==
    {i \in C6_RecentRows : Cardinality({j \in C6_RecentRows : j < i}) < 10}

\* the source's measure: the words of the candidate that occur in the history
\* topic, counted with their repetitions, over the distinct words of both
C6_Overlap(cand, hist) ==
    <<Cardinality({i \in DOMAIN cand :
          [w |-> lowerWord(cand[i].w), p |-> cand[i].p] \in C6_WordSet(hist)}),
      Cardinality(C6_WordSet(cand) \cup C6_WordSet(hist))>>

C7_NoPromotionalKeywordReturned ==
    tpc = "done" => \A g \in DOMAIN generated : ~IsSalesy(generated[g].topic)

\* ---- selectSubreddit applied to bounded inputs
TzChoices == {-5, 0, 5}

\* most subreddits of a company
MaxSubs == 4

\* "My churn story"
TopicStory == [topic |-> TxtChurn, relevance_score |-> 5, post_type |-> "story"]
\* "How do startups handle saas marketing"
TopicQuestion ==
    [topic |-> <<W("How"), W("do"), W("startups"), W("handle"), W("saas"), W("marketing")>>,
     relevance_score |-> 5, post_type |-> "question"]
\* "Tips for my product launch"
TopicAdvice ==
    [topic |-> <<W("Tips"), W("for"), W("my"), W("product"), W("launch")>>,
     relevance_score |-> 5, post_type |-> "advice"]

TopicChoices == {TopicStory, TopicQuestion, TopicAdvice}

\* a subreddit (without its id) and the activity row loaded for it
SubredditProfiles ==
    { [name |-> <<"startups">>, rules |-> {}, min_cooldown_days |-> 7,
       max_posts_per_week |-> 2, size_category |-> "medium", activity |-> NoActivity],
      [name |-> <<"gardening">>, rules |-> {"no personal stories"}, min_cooldown_days |-> 7,
       max_posts_per_week |-> 2, size_category |-> "small",
       activity |-> [week_start_date |-> 0, last_post_date |-> 1, posts_this_week |-> 2]],
      [name |-> <<"gardening">>, rules |-> {"no self-promotion"}, min_cooldown_days |-> 0,
       max_posts_per_week |-> 0, size_category |-> "small",
       activity |-> [week_start_date |-> 0, last_post_date |-> 4, posts_this_week |-> 2]],
      [name |-> <<"saas", "marketing">>, rules |-> {"no advice posts"}, min_cooldown_days |-> 3,
       max_posts_per_week |-> 3, size_category |-> "large",
       activity |-> [week_start_date |-> 0, last_post_date |-> 0, posts_this_week |-> 1]],
      [name |-> <<"ai", "business">>, rules |-> {}, min_cooldown_days |-> 3,
       max_posts_per_week |-> 3, size_category |-> "large",
       activity |-> [week_start_date |-> -7, last_post_date |-> NoDate, posts_this_week |-> 3]] }

SubredditOf(profile, id) ==
    [id |-> id, name |-> profile.name, rules |-> profile.rules,
     min_cooldown_days |-> profile.min_cooldown_days,
     max_posts_per_week |-> profile.max_posts_per_week,
     size_category |-> profile.size_category]

SelectInit ==
    /\ tz \in TzChoices
    /\ \E n \in 1..MaxSubs : \E ps \in [1..n -> SubredditProfiles] :
          /\ selSubreddits = [i \in 1..n |-> SubredditOf(ps[i], i)]
          /\ selActivities = [i \in 1..n |-> ps[i].activity]
    /\ selTopic \in TopicChoices
    /\ selDay \in {1, 3}
    /\ selResult = <<>>
    /\ spc = "call"
    /\ DistIdle /\ TopicIdle /\ RunIdle /\ SideIdle

SelectSubreddit ==
    /\ spc = "call"
    /\ selResult' = selectSubreddit(selSubreddits, selActivities, selTopic,
                                    LocalMidnight(selDay))
    /\ spc' = "done"
    /\ UNCHANGED <<selSubreddits, selActivities, selTopic, selDay, tz, distVars, topicVars,
                   envVars, dbVars, runVars, sideVars>>

SelectNext == SelectSubreddit

SpecSelect == SelectInit /\ [][SelectNext]_vars

\* the score of every channel of the call
C8_Score(i) == SubredditScoreOf(selSubreddits[i], selActivities[i], selTopic,
                                LocalMidnight(selDay)).score
C8_TopScore == CHOOSE m \in {C8_Score(i) : i \in DOMAIN selSubreddits} :
                  \A i \in DOMAIN selSubreddits : C8_Score(i) <= m
C8_Ids == {selResult[k].subreddit_id : k \in DOMAIN selResult}

\* C8: for a non-empty channel list the result is non-empty, holds each
\* channel at most once with its score, and is sorted by score descending;
\* when the top score is below 0.1 it is the top min(3, n) channels,
\* otherwise every channel whose score is > 0.
C8_NonEmptyRankedList ==
    spc = "done" =>
        /\ Len(selResult) >= 1
        /\ \A k \in DOMAIN selResult :
              /\ selResult[k].subreddit_id \in DOMAIN selSubreddits
              /\ selResult[k].score = C8_Score(selResult[k].subreddit_id)
        /\ \A j, k \in DOMAIN selResult :
              j < k => /\ selResult[j].score >= selResult[k].score
                       /\ selResult[j].subreddit_id # selResult[k].subreddit_id
        /\ IF C8_TopScore * 10 < SCALE
           THEN /\ Len(selResult) = Min2(3, Len(selSubreddits))
                /\ \A i \in DOMAIN selSubreddits \ C8_Ids : \A k \in DOMAIN selResult :
                      C8_Score(i) <= selResult[k].score
           ELSE C8_Ids = {i \in DOMAIN selSubreddits : C8_Score(i) > 0}

\* four channels that all score below 0.1: the top three are returned
C8_Witness ==
    /\ spc = "done"
    /\ Len(selSubreddits) = 4
    /\ C8_TopScore * 10 < SCALE
    /\ Len(selResult) = 3

\* a call whose channels differ in score, all returned in order
C8_WitnessRanked ==
    /\ spc = "done"
    /\ Len(selResult) = 3
    /\ selResult[1].score > selResult[2].score
    /\ selResult[2].score > selResult[3].score
    /\ selResult[3].score * 10 >= SCALE

\* ---- generateCalendar runs over bounded companies and stores
NoCompany == [none |-> TRUE]

\* most inserts of one run the store may refuse
MaxFailures == 1

\* the run's weekStart and weekStartStr
WeekStart == startOfWeek(ParseDate(params.week_start_date))
WeekStartStr == LocalDate(WeekStart)

\* "Tips for startups scaling support"
TxtStartupsSupport == <<W("Tips"), W("for"), W("startups"), W("scaling"), W("support")>>
\* "My churn story at two startups"
TxtStartupsStory == <<W("My"), W("churn"), W("story"), W("at"), W("two"), W("startups")>>
\* "What tools do startups use for onboarding"
TxtStartupsTools == <<W("What"), W("tools"), W("do"), W("startups"), W("use"),
                      W("for"), W("onboarding")>>
\* "Tips for startups on churn"
TxtStartupsChurn == <<W("Tips"), W("for"), W("startups"), W("on"), W("churn")>>
\* "How startups manage customer support"
TxtStartupsManage == <<W("How"), W("startups"), W("manage"), W("customer"), W("support")>>

\* collaborator answers: every topic about startups, and a mixed list
AnswerStartups ==
    << [topic |-> TopicQuestion.topic, post_type |-> "question"],
       [topic |-> TxtStartupsSupport, post_type |-> "advice"],
       [topic |-> TxtStartupsStory, post_type |-> "story"],
       [topic |-> TxtStartupsTools, post_type |-> "question"],
       [topic |-> TxtStartupsChurn, post_type |-> "advice"],
       [topic |-> TxtStartupsManage, post_type |-> "question"] >>

AnswerMixed ==
    << [topic |-> TxtHandle, post_type |-> "question"],
       [topic |-> TxtToolsNow, post_type |-> "advice"],
       [topic |-> TxtChurn, post_type |-> "story"],
       [topic |-> TxtManage, post_type |-> "question"],
       [topic |-> TopicAdvice.topic, post_type |-> "advice"],
       [topic |-> TxtBuyers, post_type |-> "story"],
       [topic |-> TopicQuestion.topic, post_type |-> "question"] >>

CompanyFounders ==
    [pain_points |-> << <<W("scaling"), W("support")>>, <<W("churn")>> >>,
     target_users |-> << <<W("founders")>> >>]

CompanyOnePain ==
    [pain_points |-> << <<W("churn")>> >>, target_users |-> << <<W("founders")>> >>]

PersonaP1 == [id |-> "P1", tone |-> "helpful", expertise |-> << <<W("startup")>> >>]
PersonaP2 == [id |-> "P2", tone |-> "curious", expertise |-> << <<W("marketing")>> >>]
PersonaP3 == [id |-> "P3", tone |-> "Expert",
              expertise |-> << <<W("product")>>, <<W("sales")>> >>]

\* channel A: cooldown 7 days, at most 2 posts a week; channel B: 3 and 3
ChannelA == [id |-> 1, name |-> <<"startups">>, rules |-> {}, min_cooldown_days |-> 7,
             max_posts_per_week |-> 2, size_category |-> "medium"]
ChannelB == [id |-> 2, name |-> <<"gardening">>, rules |-> {}, min_cooldown_days |-> 3,
             max_posts_per_week |-> 3, size_category |-> "medium"]

\* the end-to-end scenario: 2 identities, channels A and B, 5 posts, nothing
\* stored yet; answer is what the collaborator does
EndToEnd(answer) ==
    [company |-> CompanyFounders, personas |-> <<PersonaP1, PersonaP2>>,
     subreddits |-> <<ChannelA, ChannelB>>, llm |-> answer,
     params |-> [week_start_date |-> 0, posts_per_week |-> 5, existing_calendar_id |-> 0],
     calendars |-> <<>>, posts |-> <<>>, history |-> <<>>, activity |-> {}]

OldPost(id, persona, subreddit, topic, type) ==
    [id |-> id, calendar_id |-> 1, day_of_week |-> id, subreddit_id |-> subreddit,
     topic |-> topic, persona_id |-> persona, post_type |-> type, order_in_day |-> 0,
     created_at |-> -40]

OldCalendar(week) ==
    [id |-> 1, week_start_date |-> week, created_at |-> -40, spam_warnings |-> <<>>]

\* the companies, stores and requests a run starts from
Scenarios ==
    { EndToEnd([ok |-> TRUE, topics |-> AnswerStartups]),
      EndToEnd([ok |-> TRUE, topics |-> AnswerMixed]),
      EndToEnd([ok |-> FALSE, topics |-> <<>>]),
      \* the collaborator answers with no topic at all
      EndToEnd([ok |-> TRUE, topics |-> <<>>]),
      \* nothing configured
      [EndToEnd([ok |-> FALSE, topics |-> <<>>]) EXCEPT !.company = NoCompany],
      [EndToEnd([ok |-> FALSE, topics |-> <<>>]) EXCEPT !.personas = <<>>],
      [EndToEnd([ok |-> FALSE, topics |-> <<>>]) EXCEPT !.subreddits = <<>>],
      \* one identity, one pain point, 8 posts, the collaborator fails
      [EndToEnd([ok |-> FALSE, topics |-> <<>>]) EXCEPT
          !.company = CompanyOnePain, !.personas = <<PersonaP1>>,
          !.params = [week_start_date |-> 0, posts_per_week |-> 8,
                      existing_calendar_id |-> 0]],
      \* a company with an earlier calendar, its posts and its topic history
      [EndToEnd([ok |-> TRUE, topics |-> AnswerMixed]) EXCEPT
          !.personas = <<PersonaP1, PersonaP2, PersonaP3>>,
          !.params = [week_start_date |-> 0, posts_per_week |-> 3,
                      existing_calendar_id |-> 0],
          !.calendars = <<OldCalendar(-14)>>,
          !.posts = <<OldPost(1, "P1", 1, TxtHandle, "question"),
                      OldPost(2, "P1", 1, TxtChurn, "story"),
                      OldPost(3, "P2", 2, TopicQuestion.topic, "question")>>,
          !.history = <<[topic |-> TxtHandle, last_used_date |-> -5, usage_count |-> 1],
                        [topic |-> TxtChurn, last_used_date |-> -6, usage_count |-> 1]>>],
      \* the week is planned again into its calendar, whose posts were deleted
      [EndToEnd([ok |-> TRUE, topics |-> AnswerMixed]) EXCEPT
          !.params = [week_start_date |-> 0, posts_per_week |-> 2,
                      existing_calendar_id |-> 1],
          !.calendars = <<OldCalendar(0)>>,
          !.activity = {[id |-> StoredId, subreddit_id |-> 1, week_start_date |-> w,
                         last_post_date |-> w + 3, posts_this_week |-> 2] : w \in {-7, 0}}],
      \* one post is asked for
      [EndToEnd([ok |-> TRUE, topics |-> AnswerMixed]) EXCEPT
          !.params = [week_start_date |-> 0, posts_per_week |-> 1,
                      existing_calendar_id |-> 0]],
      \* the week has a calendar and the request names none
      [EndToEnd([ok |-> TRUE, topics |-> AnswerMixed]) EXCEPT
          !.params = [week_start_date |-> 0, posts_per_week |-> 2,
                      existing_calendar_id |-> 0],
          !.calendars = <<OldCalendar(0), [OldCalendar(-7) EXCEPT !.id = 2]>>],
      \* one more post is planned into the calendar of a week in which both
      \* channels already have a stored activity row
      [EndToEnd([ok |-> TRUE, topics |-> AnswerMixed]) EXCEPT
          !.params = [week_start_date |-> 0, posts_per_week |-> 1,
                      existing_calendar_id |-> 1],
          !.calendars = <<OldCalendar(0)>>,
          !.activity = {[id |-> StoredId + s, subreddit_id |-> s, week_start_date |-> 0,
                         last_post_date |-> 0, posts_this_week |-> 1] : s \in {1, 2}}] }

Init ==
    /\ tz \in TzChoices
    /\ now = -36
    /\ \E sc \in Scenarios :
          /\ company = sc.company /\ llm = sc.llm
          /\ personas = sc.personas /\ subreddits = sc.subreddits
          /\ params = sc.params
          /\ dbCalendars = sc.calendars /\ dbPosts = sc.posts
          /\ dbTopicHistory = sc.history /\ dbActivity = sc.activity
    /\ dbReplies = <<>>
    /\ pc = "start" /\ RunFresh
    /\ topicHistory = <<>> /\ reqCount = 0 /\ generated = <<>> /\ tpc = "idle"
    /\ DistIdle /\ SelIdle /\ SideIdle
\* a throw that comes only after the calendar row was inserted
ThrowAfterInsert(message) ==
    /\ pc' = "failed" /\ error' = message
    /\ dbCalendars' = Append(dbCalendars,
                             [id |-> Len(dbCalendars) + 1, week_start_date |-> WeekStartStr,
                              created_at |-> now, spam_warnings |-> <<>>])
    /\ UNCHANGED <<dbPosts, dbReplies, dbTopicHistory, dbActivity, generatedTopics,
                   calendar, posts, postPersonaMap, usedTopics, topicIndex, activitiesMap,
                   recentPosts, previousWeeksPosts, dayPosts, strategyMap, slot,
                   replyPlans, validatedReplies, replies, spamCheck, failures>>

Throw(message) ==
    /\ pc' = "failed" /\ error' = message
    /\ UNCHANGED <<dbVars, generatedTopics, calendar, posts, postPersonaMap, usedTopics,
                   topicIndex, activitiesMap, recentPosts, previousWeeksPosts, dayPosts,
                   strategyMap, slot, replyPlans, validatedReplies, replies, spamCheck,
                   failures>>

\* steps 1 to 3 and the set-up of step 4 (index.ts 29-225)
StartRun ==
    /\ pc = "start"
    /\ IF company = NoCompany THEN Throw("Company not found")
       ELSE IF Len(personas) = 0 THEN Throw("No personas found for company")
       ELSE IF Len(subreddits) = 0 THEN Throw("No subreddits found for company")
       ELSE
         LET topics == generateTopics(company, HistoryAt(dbTopicHistory, now),
                                      params.posts_per_week + 5, llm)
             existing == FindById(dbCalendars, params.existing_calendar_id)
             taken == \E k \in DOMAIN dbCalendars :
                         dbCalendars[k].week_start_date = WeekStartStr
             newCalendar == [id |-> Len(dbCalendars) + 1, week_start_date |-> WeekStartStr,
                             created_at |-> now, spam_warnings |-> <<>>]
             dist == distributePostsAcrossWeek(params.posts_per_week)
         IN  IF Len(topics) = 0 THEN Throw("No topics were generated")
             ELSE IF params.existing_calendar_id # 0 /\ existing = 0
             THEN Throw("Failed to find existing calendar")
             ELSE IF params.existing_calendar_id = 0 /\ taken
             THEN Throw("Failed to create calendar")
             ELSE
               /\ generatedTopics' = topics
               /\ recentPosts' = PostsOfCalendars(dbPosts,
                                     recentCalendarIds(dbCalendars, WeekStart))
               /\ IF params.existing_calendar_id # 0
                  THEN calendar' = params.existing_calendar_id /\ UNCHANGED dbCalendars
                  ELSE /\ calendar' = newCalendar.id
                       /\ dbCalendars' = Append(dbCalendars, newCalendar)
               /\ dayPosts' = dist
               /\ strategyMap' \in assignWeeklyStrategy(dist, 0)
               /\ activitiesMap' = loadActivities(dbActivity, subreddits, WeekStartStr)
               /\ previousWeeksPosts' = PostsOfCalendars(dbPosts,
                                     previousCalendarIds(dbCalendars, WeekStartStr))
               /\ slot' = FirstSlotFrom(dist, 0)
               /\ pc' = "slots"
               /\ UNCHANGED <<dbPosts, dbReplies, dbTopicHistory, dbActivity, error, posts,
                              postPersonaMap, usedTopics, topicIndex, replyPlans,
                              validatedReplies, replies, spamCheck, failures>>
    /\ UNCHANGED <<distVars, topicVars, tz, selVars, envVars, sideVars>>

\* one pass of the inner loop of step 4 (index.ts 238-434)
PlanSlot ==
    /\ pc = "slots"
    /\ LET dayOfWeek == slot[1]
           i == slot[2]
           targetDate == WeekStart + 24 * dayOfWeek
           strategy == strategyMap[dayOfWeek][i + 1]
           next == NextSlot(dayPosts, slot)
       IN  \E picked \in {pickTopic(generatedTopics, usedTopics, topicIndex,
                                    preferredTypes(strategy), company)} :
           \E subredditScores \in {selectSubreddit(subreddits, activitiesMap,
                                                   picked.topic, targetDate)} :
           \E subreddit \in {LET found == IF Len(subredditScores) > 0
                                          THEN FindById(subreddits,
                                                        subredditScores[1].subreddit_id)
                                          ELSE 0
                             IN  IF found # 0 THEN subreddits[found] ELSE subreddits[1]} :
           \E personaAssignment \in {assignPersona(personas, picked.topic, recentPosts,
                                                   targetDate, subreddit.id)} :
           \E persona \in {LET foundPersona ==
                                   IF personaAssignment # NoAssignment
                                   THEN FindById(personas, personaAssignment.persona_id)
                                   ELSE 0
                           IN  IF foundPersona # 0 THEN personas[foundPersona]
                               ELSE personas[1]} :
           \E post \in {[id |-> Len(dbPosts) + 1, calendar_id |-> calendar,
                         day_of_week |-> dayOfWeek, subreddit_id |-> subreddit.id,
                         topic |-> picked.topic.topic, persona_id |-> persona.id,
                         post_type |-> picked.topic.post_type, order_in_day |-> i,
                         created_at |-> now]} :
           /\ usedTopics' = picked.used
           /\ topicIndex' = picked.index
           /\ slot' = next
           /\ pc' = IF next = NoSlot THEN "finish" ELSE "slots"
           /\ \/ \* the row is stored, at once or by the retry without
                 \* posting_strategy
                 /\ dbPosts' = Append(dbPosts, post)
                 /\ posts' = Append(posts, post)
                 /\ postPersonaMap' = (post.id :> persona.id) @@ postPersonaMap
                 /\ activitiesMap' = [activitiesMap EXCEPT ![subreddit.id] =
                        updateSubredditActivity(subreddit.id, targetDate, activitiesMap)]
                 /\ dbTopicHistory' = upsertTopic(dbTopicHistory, picked.topic.topic,
                                                  LocalDate(targetDate))
                 /\ UNCHANGED failures
              \/ \* the insert fails: the slot is logged and skipped
                 /\ failures < MaxFailures
                 /\ failures' = failures + 1
                 /\ UNCHANGED <<dbPosts, posts, postPersonaMap, activitiesMap,
                                dbTopicHistory>>
    /\ UNCHANGED <<dbCalendars, dbReplies, dbActivity, error, generatedTopics, calendar,
                   recentPosts, previousWeeksPosts, dayPosts, strategyMap, replyPlans,
                   validatedReplies, replies, spamCheck>>
    /\ UNCHANGED <<distVars, topicVars, tz, selVars, envVars, sideVars>>

\* the check of the created posts and steps 5 to 8 (index.ts 489-575)
FinishRun ==
    /\ pc = "finish"
    /\ IF Len(posts) = 0
       THEN /\ pc' = "failed" /\ error' = "Failed to create any posts"
            /\ UNCHANGED <<dbVars, replyPlans, validatedReplies, replies, spamCheck,
                           failures>>
       ELSE \E check \in {checkSpamAndSafety(posts, subreddits, previousWeeksPosts)} :
            \E plans \in planReplies(posts, personas, postPersonaMap) :
            \E validated \in {validateReplyPlans(plans, posts, postPersonaMap)} :
            \E failed \in SUBSET DOMAIN validated : \E acceptsEmptyId \in BOOLEAN :
            \E stored \in {persistReplies(validated, posts, personas, failed)} :
                LET at == FindById(dbCalendars, calendar)
                IN  /\ failures + Cardinality(failed) <= MaxFailures
                    /\ failures' = failures + Cardinality(failed)
                    /\ replyPlans' = plans
                    /\ validatedReplies' = validated
                    /\ replies' = stored
                    /\ dbReplies' = dbReplies \o stored
                    /\ spamCheck' = check
                    /\ dbCalendars' = IF Len(check.warnings) > 0
                                      THEN [dbCalendars EXCEPT ![at].spam_warnings =
                                                check.warnings]
                                      ELSE dbCalendars
                    /\ dbActivity' = upsertActivities(dbActivity, activitiesMap,
                                                      acceptsEmptyId)
                    /\ pc' = "done"
                    /\ UNCHANGED <<dbPosts, dbTopicHistory, error>>
    /\ UNCHANGED <<generatedTopics, calendar, posts, postPersonaMap, usedTopics, topicIndex,
                   activitiesMap, recentPosts, previousWeeksPosts, dayPosts, strategyMap,
                   slot>>
    /\ UNCHANGED <<distVars, topicVars, tz, selVars, envVars, sideVars>>

Next == StartRun \/ PlanSlot \/ FinishRun

Spec == Init /\ [][Next]_vars

\* the persona of the post a reply entry answers
C1_Author(entry) == posts[CHOOSE k \in DOMAIN posts : posts[k].id = entry.post_id].persona_id

\* C1: after a run, every reply plan made by planReplies, every plan kept by
\* validateReplyPlans and every reply stored for the week names a persona
\* other than the persona of its post; with exactly one persona no reply is
\* planned at all.
C1_NoSelfReply ==
    pc = "done" =>
        /\ \A k \in DOMAIN replyPlans : replyPlans[k].persona_id # C1_Author(replyPlans[k])
        /\ \A k \in DOMAIN validatedReplies :
              validatedReplies[k].persona_id # C1_Author(validatedReplies[k])
        /\ \A k \in DOMAIN replies : replies[k].persona_id # C1_Author(replies[k])
        /\ \A k \in DOMAIN dbReplies : dbReplies[k].persona_id # C1_Author(dbReplies[k])
        /\ Len(personas) = 1 => replyPlans = <<>> /\ dbReplies = <<>>

\* a finished run whose posts come from two personas and whose stored replies
\* come from two personas
C1_Witness ==
    /\ pc = "done"
    /\ Cardinality({posts[k].persona_id : k \in DOMAIN posts}) = 2
    /\ Len(replies) >= 3
    /\ Cardinality({replies[k].persona_id : k \in DOMAIN replies}) = 2

\* ---- validateReplyPlans and the reply loop applied to bounded plan maps
\* most posts of the week, with the ids 1..MaxPlanPosts; a plan may also
\* name the id 0, which is no post of the week
MaxPlanPosts == 4

PlanPost(id, persona) ==
    [id |-> id, calendar_id |-> 1, day_of_week |-> id % 7, subreddit_id |-> 1,
     topic |-> TxtChurn, persona_id |-> persona, post_type |-> "story",
     order_in_day |-> 0, created_at |-> 0]

\* the entries of a plan map over the post ids in ids, in ascending order
RECURSIVE PlanMap(_, _, _)
PlanMap(ids, who, from) ==
    IF from > MaxPlanPosts THEN <<>>
    ELSE (IF from \in ids THEN <<[post_id |-> from, persona_id |-> who[from]]>> ELSE <<>>)
         \o PlanMap(ids, who, from + 1)

RepliesInit ==
    /\ personas = <<PersonaP1, PersonaP2>>
    /\ \E author \in [1..MaxPlanPosts -> {"P1", "P2"}] : \E unmapped \in SUBSET {1} :
          /\ posts = [k \in 1..MaxPlanPosts |-> PlanPost(k, author[k])]
          /\ postPersonaMap = [k \in (1..MaxPlanPosts) \ unmapped |-> author[k]]
    /\ \E ids \in SUBSET (0..MaxPlanPosts) : \E who \in [ids -> {"P1", "P2"}] :
          replyPlans = PlanMap(ids, who, 0)
    /\ pc = "validate"
    /\ now = 0 /\ subreddits = <<>> /\ params = <<>>
    /\ dbCalendars = <<>> /\ dbPosts = <<>> /\ dbReplies = <<>>
    /\ dbTopicHistory = <<>> /\ dbActivity = {}
    /\ error = "" /\ generatedTopics = <<>> /\ calendar = 0
    /\ usedTopics = {} /\ topicIndex = 0
    /\ activitiesMap = <<>> /\ recentPosts = <<>> /\ previousWeeksPosts = <<>>
    /\ dayPosts = <<>> /\ strategyMap = <<>> /\ slot = NoSlot
    /\ validatedReplies = <<>> /\ replies = <<>>
    /\ spamCheck = NoSpamCheck /\ failures = 0
    /\ DistIdle /\ TopicIdle /\ SelIdle /\ SideIdle /\ tz = 0

\* validateReplyPlans and the loop that stores the kept plans
\* (index.ts 502-543)
ValidateAndCreateReplies ==
    /\ pc = "validate"
    /\ LET validated == validateReplyPlans(replyPlans, posts, postPersonaMap)
       IN  \E failed \in SUBSET DOMAIN validated :
              /\ Cardinality(failed) <= MaxFailures
              /\ validatedReplies' = validated
              /\ replies' = persistReplies(validated, posts, personas, failed)
              /\ dbReplies' = dbReplies \o persistReplies(validated, posts, personas, failed)
              /\ failures' = Cardinality(failed)
              /\ pc' = "done"
    /\ UNCHANGED <<dbCalendars, dbPosts, dbTopicHistory, dbActivity, error, generatedTopics,
                   calendar, posts, postPersonaMap, usedTopics, topicIndex, activitiesMap,
                   recentPosts, previousWeeksPosts, dayPosts, strategyMap, slot, replyPlans,
                   spamCheck>>
    /\ UNCHANGED <<distVars, topicVars, tz, selVars, envVars, sideVars>>

RepliesNext == ValidateAndCreateReplies

SpecReplies == RepliesInit /\ [][RepliesNext]_vars

\* the entries of the input that name a post of the week with a known author
\* and a persona other than that author
C2_Eligible ==
    {k \in DOMAIN replyPlans :
        /\ \E j \in DOMAIN posts : posts[j].id = replyPlans[k].post_id
        /\ replyPlans[k].post_id \in DOMAIN postPersonaMap
        /\ replyPlans[k].persona_id # postPersonaMap[replyPlans[k].post_id]}

\* of these, for each persona, the first three in the order of the input
C2_FirstThree ==
    {k \in C2_Eligible :
        Cardinality({j \in C2_Eligible : j < k /\ replyPlans[j].persona_id
                                                    = replyPlans[k].persona_id}) < 3}

C2_CountOf(s, persona) == Cardinality({k \in DOMAIN s : s[k].persona_id = persona})

\* the first three entries of each persona in the order of the input
C2_FirstThreeOfInput ==
    {k \in DOMAIN replyPlans :
        Cardinality({j \in DOMAIN replyPlans : j < k /\ replyPlans[j].persona_id
                                                          = replyPlans[k].persona_id}) < 3}

\* C2 as claimed: whatever the input map, the output of validateReplyPlans
\* holds at most 3 entries per persona, so no persona has more than 3 replies
\* stored, and the entries kept for a persona are among the first three that
\* persona has in the iteration order of the input.
C2_KeepsFirstThreeOfInput ==
    pc = "done" =>
        /\ \A p \in {"P1", "P2"} :
              /\ C2_CountOf(validatedReplies, p) <= 3
              /\ C2_CountOf(replies, p) <= 3
        /\ \A v \in DOMAIN validatedReplies : \E k \in C2_FirstThreeOfInput :
              validatedReplies[v] = replyPlans[k]

\* C2 as amended: whatever the input map, the output of validateReplyPlans
\* holds at most 3 entries per persona, so no persona has more than 3 replies
\* stored; the entries kept for a persona are the first three, in the order
\* of the input, of its entries that answer a post of the week whose author
\* is known and is another persona.
C2_AtMostThreeRepliesPerPersona ==
    pc = "done" =>
        /\ \A p \in {"P1", "P2"} :
              /\ C2_CountOf(validatedReplies, p) <= 3
              /\ C2_CountOf(replies, p) <= 3
              /\ C2_CountOf(dbReplies, p) <= 3
        /\ validatedReplies = SelectSeqIdx(replyPlans, C2_FirstThree, 1)
        /\ \A k \in DOMAIN replies : \E j \in DOMAIN validatedReplies :
              replies[k] = validatedReplies[j]

\* a map with five entries of one persona: the first names no post of the
\* week, the next three are kept, the fifth is an excess one and dropped
C2_Witness ==
    /\ pc = "done"
    /\ Len(replyPlans) = 5
    /\ \A k \in DOMAIN replyPlans : replyPlans[k].persona_id = "P2"
    /\ C2_Eligible = {2, 3, 4, 5}
    /\ validatedReplies = SubSeq(replyPlans, 2, 4)
    /\ Len(replies) = 3

\* the posts of the run placed before post k in the same channel by persona p,
\* dated within the 3 days before it
C9_Collides(p, k) ==
    \E j \in DOMAIN posts :
        /\ j < k
        /\ posts[j].persona_id = p
        /\ posts[j].subreddit_id = posts[k].subreddit_id
        /\ posts[k].day_of_week - posts[j].day_of_week \in 0..3

\* C9 as claimed: in a run, every created post has a persona with no other
\* post in the same channel dated within the 3 days before it, the posts
\* placed earlier in the run included, whenever some persona is free of
\* such a collision.
C9_NoCollisionWithinRun ==
    pc = "done" =>
        \A k \in DOMAIN posts :
            (\E q \in DOMAIN personas : ~C9_Collides(personas[q].id, k))
                => ~C9_Collides(posts[k].persona_id, k)

\* the number of posts of the run in a channel
C10_Placed(id) == Cardinality({k \in DOMAIN posts : posts[k].subreddit_id = id})

C10_EndToEnd ==
    /\ personas = <<PersonaP1, PersonaP2>>
    /\ subreddits = <<ChannelA, ChannelB>>
    /\ params = [week_start_date |-> 0, posts_per_week |-> 5, existing_calendar_id |-> 0]
    /\ company = CompanyFounders

C3_SevenEntriesSumToTotal ==
    dpc = "done" =>
        /\ DOMAIN distribution = Days
        /\ \A d \in Days : distribution[d] \in Nat
        /\ SumWeek(distribution) = totalPosts

\* a total of the 6+ branch whose first pass leaves a remainder to hand out
C3_Witness ==
    /\ dpc = "done"
    /\ totalPosts = 11
    /\ SumWeek(FirstPass(0, ZeroWeek, totalPosts).dist) < totalPosts
    /\ SumWeek(distribution) = 11

\* C4: total = 5 gives exactly [0,1,1,1,0,1,1].
C4_FiveSkipsThursdayAndSunday ==
    (dpc = "done" /\ totalPosts = 5) =>
        distribution = [d \in Days |-> IF d \in {0, 4} THEN 0 ELSE 1]

C4_Witness == dpc = "done" /\ totalPosts = 5 /\ distribution[6] = 1

\* C5: total = 4 gives exactly [0,1,1,1,1,0,0].
C5_FourIsMondayToThursday ==
    (dpc = "done" /\ totalPosts = 4) =>
        distribution = [d \in Days |-> IF d \in {0, 5, 6} THEN 0 ELSE 1]

C5_Witness == dpc = "done" /\ totalPosts = 4 /\ distribution[4] = 1

(***************************************************************************)
(* evaluateCalendarQuality  (src/lib/planning/quality.ts)                  *)
(*                                                                         *)
(* The eight sub-scores are kept in 1/DenLcm, so that every quotient by a  *)
(* number of posts, replies, personas or pairs is exact; the returned      *)
(* fields are in tenths, as Math.round(x * 10) / 10 leaves them.  A reply  *)
(* is [post_id, persona_id, intent, order_after_post (in half hours),      *)
(* planned_content]; an issue is [text, value], value being the number the *)
(* message quotes (0: none).                                               *)
(***************************************************************************)
\* Math.round(x * 10), x in 1/DenLcm: the nearest tenth, a half going up
roundTenths(x) == (x * 20 + DenLcm) \div (2 * DenLcm)

MaxOf(s) == CHOOSE m \in {s[k] : k \in DOMAIN s} : \A k \in DOMAIN s : s[k] <= m
MinOf(s) == CHOOSE m \in {s[k] : k \in DOMAIN s} : \A k \in DOMAIN s : m <= s[k]

\* the counts of a Map filled by counting a field of the posts
countValues(s) == LET keys == Keys(s) IN [k \in DOMAIN keys |-> CountOf(s, keys[k])]

\* calculateVariance of the reply timings against a bound in squared hours:
\* the timings x are in half hours, the variance of the hours is
\* (n * sum(x^2) - sum(x)^2) / (4 * n^2), 0 for no value
varianceBelow(x, bound) ==
    IF Len(x) = 0 THEN 0 < bound
    ELSE Len(x) * SumSeq([k \in DOMAIN x |-> x[k] * x[k]]) - SumSeq(x) * SumSeq(x)
            < 4 * bound * Len(x) * Len(x)

varianceAbove(x, bound) ==
    IF Len(x) = 0 THEN 0 > bound
    ELSE Len(x) * SumSeq([k \in DOMAIN x |-> x[k] * x[k]]) - SumSeq(x) * SumSeq(x)
            > 4 * bound * Len(x) * Len(x)

\* 1. topic diversity
topicDiversity(plist) ==
    (10 * DenLcm * Cardinality({plist[k].topic : k \in DOMAIN plist})) \div Len(plist)

lowDiversity(plist) ==
    5 * Cardinality({plist[k].topic : k \in DOMAIN plist}) < 4 * Len(plist)

\* 2. persona rotation before the penalty for consecutive posts
rotationBase(plist) ==
    LET personaValues == countValues([k \in DOMAIN plist |-> plist[k].persona_id])
        variance == MaxOf(personaValues) - MinOf(personaValues)
    IN  IF Len(personaValues) > 1
        THEN Max2(0, 10 * DenLcm
                     - (20 * DenLcm * variance * Len(personaValues)) \div Len(plist))
        ELSE 5 * DenLcm

consecutiveSamePersona(plist) ==
    Cardinality({i \in 2..Len(plist) : plist[i].persona_id = plist[i - 1].persona_id})

tooConsecutive(plist) == 10 * consecutiveSamePersona(plist) > 3 * Len(plist)

\* the score as returned: the penalty comes after Math.max(0, ...)
personaRotation(plist) ==
    rotationBase(plist) - (IF tooConsecutive(plist) THEN 2 * DenLcm ELSE 0)

\* 3. subreddit distribution
subredditDistribution(plist) ==
    LET subredditValues == countValues([k \in DOMAIN plist |-> plist[k].subreddit_id])
    IN  IF Len(subredditValues) > 1
        THEN Max2(0, 10 * DenLcm
                     - (5 * DenLcm * MaxOf(subredditValues) * Len(subredditValues))
                           \div Len(plist)
                     + 5 * DenLcm)
        ELSE 5 * DenLcm

\* 4. reply naturalness
badReplyRate(plist, rlist) ==
    2 * Len(rlist) < Len(plist) \/ 5 * Len(rlist) > 4 * Len(plist)

\* (replyRate * 100).toFixed(0)
replyRatePercent(plist, rlist) == (200 * Len(rlist) + Len(plist)) \div (2 * Len(plist))

replyTimings(rlist) == [k \in DOMAIN rlist |-> rlist[k].order_after_post]

fewIntents(rlist) == Cardinality({rlist[k].intent : k \in DOMAIN rlist}) < 3

selfReplies(plist, rlist) ==
    Cardinality({k \in DOMAIN rlist :
        LET at == FindById(plist, rlist[k].post_id)
        IN  at # 0 /\ plist[at].persona_id = rlist[k].persona_id})

replyNaturalness(plist, rlist) ==
    Max2(0, Min2(10,
        (IF badReplyRate(plist, rlist) THEN 5 ELSE 8)
        - (IF varianceBelow(replyTimings(rlist), 2) THEN 2 ELSE 0)
        - (IF fewIntents(rlist) THEN 1 ELSE 0)
        - (IF selfReplies(plist, rlist) > 0 THEN 3 ELSE 0))) * DenLcm

\* 5. evaluateRealism; a post without posting_strategy has none to count
MinContent == 20

strategiesOf(plist) ==
    {plist[k].posting_strategy :
        k \in {j \in DOMAIN plist : "posting_strategy" \in DOMAIN plist[j]}}

evaluateRealism(plist, rlist) ==
    LET repliesWithContent ==
            Cardinality({k \in DOMAIN rlist : Len(rlist[k].planned_content) > MinContent})
        score == 5 * DenLcm
                 + (IF Cardinality({plist[k].post_type : k \in DOMAIN plist}) >= 2
                    THEN 2 * DenLcm ELSE 0)
                 + (2 * DenLcm * repliesWithContent) \div Max2(1, Len(rlist))
                 + (IF varianceAbove(replyTimings(rlist), 5) THEN DenLcm ELSE 0)
                 + (IF Cardinality(strategiesOf(plist)) >= 3 THEN DenLcm ELSE 0)
    IN  Min2(10 * DenLcm, Max2(0, score))

\* 6. evaluateSubredditFit; preferred_post_types and culture_tone are read
\* from the row when it has them
postFit(post, subreddit) ==
    LET preferred == IF "preferred_post_types" \in DOMAIN subreddit
                     THEN subreddit.preferred_post_types
                     ELSE {"question", "story", "advice"}
        cultureTone == IF "culture_tone" \in DOMAIN subreddit
                       THEN subreddit.culture_tone ELSE "casual"
    IN  5 + (IF post.post_type \in preferred THEN 2 ELSE 0)
          + (IF \/ cultureTone = "casual" /\ post.post_type # "advice"
                \/ cultureTone = "professional" /\ post.post_type = "advice"
             THEN 1 ELSE 0)

evaluateSubredditFit(plist, subs) ==
    LET checked == {k \in DOMAIN plist : FindById(subs, plist[k].subreddit_id) # 0}
        fits == [k \in DOMAIN plist |->
                    IF k \in checked
                    THEN postFit(plist[k], subs[FindById(subs, plist[k].subreddit_id)])
                    ELSE 0]
    IN  IF Len(plist) = 0 \/ checked = {} THEN 5 * DenLcm
        ELSE (DenLcm * SumSeq(fits)) \div Cardinality(checked)

\* 8. evaluatePersonaDistinctiveness
evaluatePersonaDistinctiveness(plist, pers) ==
    LET ids == Keys([k \in DOMAIN plist |-> plist[k].persona_id])
        typeSets == [i \in DOMAIN ids |->
                        {plist[k].post_type :
                            k \in {j \in DOMAIN plist : plist[j].persona_id = ids[i]}}]
        overlaps == Cardinality({<<i, j>> \in (DOMAIN typeSets) \X (DOMAIN typeSets) :
                                    i < j /\ typeSets[i] \cap typeSets[j] # {}})
        totalPairs == (Len(typeSets) * (Len(typeSets) - 1)) \div 2
        distinctiveness == IF Len(typeSets) > 1
                           THEN 10 * DenLcm - (5 * DenLcm * overlaps) \div totalPairs
                           ELSE 5 * DenLcm
    IN  IF Len(pers) < 2 THEN 5 * DenLcm
        ELSE Max2(0, Min2(10 * DenLcm, distinctiveness))

\* weights that add up to more than 1
qualityWeightsHeavy ==
    [topic_diversity |-> 15, persona_rotation |-> 15, subreddit_distribution |-> 15,
     reply_naturalness |-> 15, realism |-> 15, subreddit_fit |-> 10, spam_risk |-> 10,
     persona_distinctiveness |-> 50]

\* the weights of the overall score, in hundredths
qualityWeights ==
    [topic_diversity |-> 15, persona_rotation |-> 15, subreddit_distribution |-> 15,
     reply_naturalness |-> 15, realism |-> 15, subreddit_fit |-> 10, spam_risk |-> 10,
     persona_distinctiveness |-> 5]

\* the issue list, in the order the messages are pushed
qualityIssues(plist, rlist, subs, pers, scores) ==
    LET issue(cond, text, value) ==
            IF cond THEN <<[text |-> text, value |-> value]>> ELSE <<>>
    IN  issue(lowDiversity(plist), "Low topic diversity", 0)
        \o issue(rotationBase(plist) < 6 * DenLcm, "Uneven persona distribution", 0)
        \o issue(tooConsecutive(plist), "Personas posting consecutively too often", 0)
        \o issue(scores.subreddit_distribution < 6 * DenLcm,
                 "Posts concentrated in too few subreddits", 0)
        \o issue(badReplyRate(plist, rlist), "Reply rate", replyRatePercent(plist, rlist))
        \o issue(varianceBelow(replyTimings(rlist), 2), "Reply timings too uniform", 0)
        \o issue(fewIntents(rlist), "Limited reply intent variety", 0)
        \o issue(selfReplies(plist, rlist) > 0, "self-replies detected",
                 selfReplies(plist, rlist))
        \o issue(scores.realism < 7 * DenLcm, "Content may feel too robotic", 0)
        \o issue(Len(subs) > 0 /\ scores.subreddit_fit < 6 * DenLcm,
                 "Some posts may not match subreddit culture", 0)
        \o issue(Len(subs) > 0 /\ Len(pers) > 0 /\ scores.riskScore2 > 10,
                 "High spam risk detected", scores.riskScore2)
        \o issue(Len(pers) > 1 /\ scores.persona_distinctiveness < 6 * DenLcm,
                 "Personas may not be distinct enough", 0)

\* riskScore of the spam check (in halves), 0 where the check is skipped
spamRiskScore2(plist, subs, pers, previous) ==
    IF Len(subs) > 0 /\ Len(pers) > 0
    THEN checkSpamAndSafety(plist, subs, previous).riskScore2 ELSE 0

\* the eight sub-scores, with the risk score of the spam check
qualityScores(plist, rlist, subs, pers, riskScore2) ==
    [topic_diversity |-> topicDiversity(plist),
     persona_rotation |-> personaRotation(plist),
     subreddit_distribution |-> subredditDistribution(plist),
     reply_naturalness |-> replyNaturalness(plist, rlist),
     realism |-> evaluateRealism(plist, rlist),
     subreddit_fit |-> IF Len(subs) > 0 THEN evaluateSubredditFit(plist, subs)
                       ELSE 5 * DenLcm,
     spam_risk |-> IF Len(subs) > 0 /\ Len(pers) > 0
                   THEN Max2(0, 10 * DenLcm - (DenLcm * riskScore2) \div 2)
                   ELSE 5 * DenLcm,
     persona_distinctiveness |->
         IF Len(pers) > 1 THEN evaluatePersonaDistinctiveness(plist, pers)
         ELSE 5 * DenLcm,
     riskScore2 |-> riskScore2]

\* the returned CalendarQualityScore
qualityResult(plist, rlist, subs, pers, scores) ==
    LET \* the weighted sum, in 1/(100 * DenLcm)
        overall100 ==
            qualityWeights.topic_diversity * scores.topic_diversity
            + qualityWeights.persona_rotation * scores.persona_rotation
            + qualityWeights.subreddit_distribution * scores.subreddit_distribution
            + qualityWeights.reply_naturalness * scores.reply_naturalness
            + qualityWeights.realism * scores.realism
            + qualityWeights.subreddit_fit * scores.subreddit_fit
            + qualityWeights.spam_risk * scores.spam_risk
            + qualityWeights.persona_distinctiveness * scores.persona_distinctiveness
    IN  [overall |-> (overall100 * 20 + 100 * DenLcm) \div (200 * DenLcm),
         topic_diversity |-> roundTenths(scores.topic_diversity),
         persona_rotation |-> roundTenths(scores.persona_rotation),
         subreddit_distribution |-> roundTenths(scores.subreddit_distribution),
         reply_naturalness |-> roundTenths(scores.reply_naturalness),
         realism |-> roundTenths(scores.realism),
         subreddit_fit |-> roundTenths(scores.subreddit_fit),
         spam_risk |-> roundTenths(scores.spam_risk),
         persona_distinctiveness |-> roundTenths(scores.persona_distinctiveness),
         issues |-> qualityIssues(plist, rlist, subs, pers, scores)]

\* evaluateCalendarQuality, for a list of at least one post
evaluateCalendarQuality(plist, rlist, subs, pers, previous) ==
    CHOOSE result \in
        {qualityResult(plist, rlist, subs, pers, scores) :
            scores \in {qualityScores(plist, rlist, subs, pers, riskScore2) :
                riskScore2 \in {spamRiskScore2(plist, subs, pers, previous)}}} :
        TRUE

(***************************************************************************)
(* evaluateCalendarQuality called twice on one finished plan               *)
(***************************************************************************)
\* most posts of a scored plan
MaxQPosts == 3

QTopicTexts == <<TxtHandle, TxtChurn, TxtManage, TxtToolsToday, TxtBuyers>>

QStrategies == <<"awareness", "authority", "trust", "value", "soft_cta">>

\* post k of a plan of n posts.  kind "fresh": days ascending, every topic
\* its own, every post with its own posting_strategy; "mixed": days
\* descending, two topics in turn, no posting_strategy; "repeated": days
\* descending, one topic, no posting_strategy
QPost(k, n, kind, persona, subreddit, type) ==
    LET row == [id |-> k, calendar_id |-> 1,
                day_of_week |-> IF kind = "fresh" THEN k ELSE n - k,
                subreddit_id |-> subreddit,
                topic |-> IF kind = "fresh" THEN QTopicTexts[k]
                          ELSE IF kind = "mixed" THEN QTopicTexts[1 + (k % 2)]
                          ELSE QTopicTexts[1],
                persona_id |-> persona, post_type |-> type, order_in_day |-> 0,
                created_at |-> 0]
    IN  IF kind = "fresh" THEN row @@ [posting_strategy |-> QStrategies[k]] ELSE row

QReply(post, persona, intent, halfHours, content) ==
    [post_id |-> post, persona_id |-> persona, intent |-> intent,
     order_after_post |-> halfHours, planned_content |-> content]

QReplyLists ==
    { <<>>,
      <<QReply(1, "P2", "ask", 2, "")>>,
      <<QReply(1, "P1", "add_value", 6, "Same here."),
        QReply(2, "P1", "add_value", 6, "This worked for us after a long search.")>>,
      <<QReply(1, "P2", "ask", 1, "Has anyone else seen this happen to them?"),
        QReply(2, "P1", "challenge", 12, "It went another way in my experience."),
        QReply(3, "P2", "add_value", 40, "One thing that worked for me was patience.")>> }

\* a channel row that carries the two optional columns
ChannelFormal ==
    ChannelA @@ [preferred_post_types |-> {"story"}, culture_tone |-> "professional"]

\* what the caller knows besides the posts and replies: subreddits, personas
\* and the posts of the weeks before
QContexts ==
    { [subreddits |-> <<>>, personas |-> <<>>, previous |-> <<>>],
      [subreddits |-> <<ChannelA, ChannelB>>, personas |-> <<>>, previous |-> <<>>],
      [subreddits |-> <<ChannelA, ChannelB>>, personas |-> <<PersonaP1>>,
       previous |-> <<>>],
      [subreddits |-> <<ChannelA, ChannelB>>, personas |-> <<PersonaP1, PersonaP2>>,
       previous |-> <<>>],
      [subreddits |-> <<ChannelA, ChannelB>>, personas |-> <<PersonaP1, PersonaP2>>,
       previous |-> <<OldPost(1, "P1", 1, TxtHandle, "question"),
                      OldPost(2, "P2", 2, TxtChurn, "story")>>],
      [subreddits |-> <<ChannelFormal>>, personas |-> <<PersonaP1, PersonaP2>>,
       previous |-> <<>>] }

\* the arguments of a call, as the caller holds them
QArguments ==
    [posts |-> posts, replies |-> replies, subreddits |-> subreddits,
     personas |-> personas, previousWeeksPosts |-> previousWeeksPosts]

QualityInit ==
    /\ \E n \in 1..MaxQPosts : \E kind \in {"fresh", "mixed", "repeated"} :
       \E who \in [1..n -> {"P1", "P2"}] : \E where \in [1..n -> {1, 2}] :
       \E type \in [1..n -> {"question", "advice"}] :
          posts = [k \in 1..n |-> QPost(k, n, kind, who[k], where[k], type[k])]
    /\ replies \in QReplyLists
    /\ \E context \in QContexts :
          /\ subreddits = context.subreddits
          /\ personas = context.personas
          /\ previousWeeksPosts = context.previous
    /\ qGiven = QArguments
    /\ quality = <<>> /\ qualityAgain = <<>> /\ qpc = "first"
    /\ now = 0 /\ params = <<>>
    /\ dbCalendars = <<>> /\ dbPosts = <<>> /\ dbReplies = <<>>
    /\ dbTopicHistory = <<>> /\ dbActivity = {}
    /\ pc = "idle" /\ error = "" /\ generatedTopics = <<>> /\ calendar = 0
    /\ postPersonaMap = <<>> /\ usedTopics = {} /\ topicIndex = 0
    /\ activitiesMap = <<>> /\ recentPosts = <<>>
    /\ dayPosts = <<>> /\ strategyMap = <<>> /\ slot = NoSlot
    /\ replyPlans = <<>> /\ validatedReplies = <<>>
    /\ spamCheck = NoSpamCheck /\ failures = 0
    /\ regenerations = 0 /\ AssignIdle /\ RaceIdle
    /\ DistIdle /\ TopicIdle /\ SelIdle /\ tz = 0

\* the posts array had the sort been done on the array itself
postsSortedInPlace(plist) == SortByDay(plist)

\* the posts array after a call: checkSpamAndSafety sorts a copy of it
\* ([...posts].sort, part_000 149) and nothing else reorders or writes it
postsAfterEvaluation(plist) == plist

\* one call of evaluateCalendarQuality on the caller's arrays
EvaluateCalendarQuality ==
    /\ qpc \in {"first", "second"}
    /\ \E result \in {evaluateCalendarQuality(posts, replies, subreddits, personas,
                                              previousWeeksPosts)} :
          IF qpc = "first"
          THEN quality' = result /\ qpc' = "second" /\ UNCHANGED qualityAgain
          ELSE qualityAgain' = result /\ qpc' = "done" /\ UNCHANGED quality
    /\ posts' = postsAfterEvaluation(posts)
    /\ UNCHANGED <<qGiven, replies, previousWeeksPosts, personas, subreddits>>
    /\ UNCHANGED <<now, params, dbVars, pc, error, generatedTopics, calendar,
                   postPersonaMap, usedTopics, topicIndex, activitiesMap, recentPosts,
                   dayPosts, strategyMap, slot, replyPlans, validatedReplies, spamCheck,
                   failures, regenerations, assignVars, raceVars>>
    /\ UNCHANGED <<distVars, topicVars, tz, selVars>>

QualityNext == EvaluateCalendarQuality

SpecQuality == QualityInit /\ [][QualityNext]_vars

\* C11: for every finished plan with at least one post, whatever its
\* replies, channels, identities and posts of earlier weeks, the overall
\* score returned by evaluateCalendarQuality lies between 0 and 10 (the
\* fields are in tenths).
C11_OverallBetween0And10 ==
    /\ qpc \in {"second", "done"} => quality.overall \in 0..100
    /\ qpc = "done" => qualityAgain.overall \in 0..100

\* a plan whose persona rotation score is below 0 while the overall score is
\* in range, and the overall score is not the neutral 5
C11_Witness ==
    /\ qpc = "done"
    /\ Len(posts) = 3
    /\ quality.persona_rotation = -20
    /\ quality.overall \in 0..100
    /\ Len(replies) > 0 /\ Len(subreddits) > 0 /\ Len(personas) > 1

C13_NothingConfigured == company = NoCompany \/ Len(personas) = 0 \/ Len(subreddits) = 0

\* C13: when the company does not exist, or has no identity, or has no
\* channel, generateCalendar throws before any insert, upsert or update: the
\* step that finds it out ends the run with an error and leaves every table
\* as it was.
C13_FatalBeforeAnyWrite ==
    [][(pc = "start" /\ C13_NothingConfigured)
          => (pc' = "failed" /\ error' # "" /\ UNCHANGED dbVars)]_vars

\* a run that threw because the company has no identity
C13_Witness ==
    /\ pc = "failed" /\ error = "No personas found for company"
    /\ company # NoCompany /\ Len(personas) = 0

\* C14 as claimed: with an existing company that has an identity and a
\* channel, a run that throws has created no post, and it does not throw
\* because of what topic generation returned.
C14_FailsOnlyWithoutPosts ==
    (pc = "failed" /\ ~C13_NothingConfigured) =>
        /\ Len(posts) = 0
        /\ error # "No topics were generated"

\* the stored posts_this_week of a channel for the planned week (0: no row)
C15_Counter(id) ==
    IF \E r \in dbActivity : r.subreddit_id = id /\ r.week_start_date = WeekStartStr
    THEN (CHOOSE r \in dbActivity :
             r.subreddit_id = id /\ r.week_start_date = WeekStartStr).posts_this_week
    ELSE 0

\* C15 as claimed: at the end of a run, a channel whose posts_this_week for
\* the planned week is above its max_posts_per_week, whatever part of the
\* count was stored before the run, has an overposting warning in the audit
\* of the run.
C15_CounterOverMaxIsFlagged ==
    pc = "done" =>
        \A s \in DOMAIN subreddits :
            C15_Counter(subreddits[s].id) > subreddits[s].max_posts_per_week
                => \E k \in DOMAIN spamCheck.warnings :
                      /\ spamCheck.warnings[k].type = "overposting"
                      /\ spamCheck.warnings[k].subreddit = subreddits[s].id

\* C19 as claimed: no two posts created by one run carry the same topic
\* text, also when the run has more slots than distinct topics.
C19_NoTopicTwiceInRun ==
    \A i, j \in DOMAIN posts : i # j => posts[i].topic # posts[j].topic

(***************************************************************************)
(* assignPersona called on its own  (src/lib/planning/personas.ts 15-83)   *)
(***************************************************************************)
\* most personas and most recent posts of a call
MaxAsgPersonas == 2
MaxAsgRecent == 2

\* the persona lists of a call: up to MaxAsgPersonas personas, each once
AsgPersonaLists ==
    UNION {{ps \in [1..n -> {PersonaP1, PersonaP2, PersonaP3}] :
               \A i, j \in 1..n : i # j => ps[i] # ps[j]} : n \in 0..MaxAsgPersonas}

\* a recent post of P1 or P2: created an hour before the 3 days up to the
\* target date begin, at their very beginning, or a day after the target date
AsgPosts(targetDate) ==
    {[OldPost(1, persona, subreddit, TxtHandle, "question") EXCEPT !.created_at = at] :
        persona \in {"P1", "P2"}, subreddit \in {1, 2},
        at \in {targetDate - 73, targetDate - 72, targetDate + 24}}

AssignInit ==
    /\ tz = 0
    /\ selDay = 3
    /\ selTopic \in TopicChoices
    /\ personas \in AsgPersonaLists
    /\ \E n \in 0..MaxAsgRecent : recentPosts \in [1..n -> AsgPosts(LocalMidnight(selDay))]
    /\ asgSubredditId \in {1, 2}
    /\ assignment = <<>> /\ apc = "call"
    /\ selSubreddits = <<>> /\ selActivities = <<>> /\ selResult = <<>> /\ spc = "idle"
    /\ now = 0 /\ subreddits = <<>> /\ params = <<>>
    /\ dbCalendars = <<>> /\ dbPosts = <<>> /\ dbReplies = <<>>
    /\ dbTopicHistory = <<>> /\ dbActivity = {}
    /\ pc = "idle" /\ error = "" /\ generatedTopics = <<>> /\ calendar = 0
    /\ posts = <<>> /\ postPersonaMap = <<>> /\ usedTopics = {} /\ topicIndex = 0
    /\ activitiesMap = <<>> /\ previousWeeksPosts = <<>>
    /\ dayPosts = <<>> /\ strategyMap = <<>> /\ slot = NoSlot
    /\ replyPlans = <<>> /\ validatedReplies = <<>> /\ replies = <<>>
    /\ spamCheck = NoSpamCheck /\ failures = 0
    /\ regenerations = 0 /\ QualityIdle /\ RaceIdle
    /\ DistIdle /\ TopicIdle

\* one call of assignPersona
AssignPersona ==
    /\ apc = "call"
    /\ assignment' = assignPersona(personas, selTopic, recentPosts,
                                   LocalMidnight(selDay), asgSubredditId)
    /\ apc' = "done"
    /\ UNCHANGED <<asgSubredditId, selSubreddits, selActivities, selTopic, selDay,
                   selResult, spc, tz, distVars, topicVars, envVars, dbVars, runVars,
                   regenerations, qualityVars, raceVars>>

AssignNext == AssignPersona

SpecAssign == AssignInit /\ [][AssignNext]_vars

\* persona k of the call has a post in the channel of the call that is not
\* older than 3 days before the target date
C20_Collides(k) ==
    \E p \in DOMAIN recentPosts :
        /\ recentPosts[p].persona_id = personas[k].id
        /\ recentPosts[p].subreddit_id = asgSubredditId
        /\ recentPosts[p].created_at >= LocalMidnight(selDay) - 72

\* the composite score of persona k of the call
C20_Score(k) ==
    PersonaAssignmentOf(personas[k], selTopic, recentPosts, LocalMidnight(selDay),
                        asgSubredditId).score

C20_AllCollide ==
    /\ apc = "done" /\ Len(personas) > 1
    /\ \A k \in DOMAIN personas : C20_Collides(k)

(***************************************************************************)
(* A calendar planned and planned again through the regenerate route       *)
(* (src/app/api/calendars/route.ts 43-127)                                 *)
(***************************************************************************)
\* most times the calendar is planned again, most posts asked for
MaxRegenerations == 1
MaxRegenPosts == 2

\* "my churn story?": TxtChurn but for its capital letter and its question mark
TxtChurnAgain == <<W("my"), W("churn"), WQ("story")>>

\* what the collaborator does in a run: it throws, or it proposes one topic
\* in two spellings
RegenAnswers ==
    { [ok |-> FALSE, topics |-> <<>>],
      [ok |-> TRUE, topics |-> << [topic |-> TxtChurn, post_type |-> "story"],
                                  [topic |-> TxtChurnAgain, post_type |-> "story"] >>] }

RegenInit ==
    /\ tz \in TzChoices
    /\ now = -36
    /\ company = CompanyFounders /\ llm \in RegenAnswers
    /\ personas = <<PersonaP1, PersonaP2>> /\ subreddits = <<ChannelA, ChannelB>>
    /\ \E n \in 1..MaxRegenPosts :
          params = [week_start_date |-> 0, posts_per_week |-> n, existing_calendar_id |-> 0]
    /\ dbCalendars = <<>> /\ dbPosts = <<>> /\ dbReplies = <<>>
    /\ dbTopicHistory = <<>> /\ dbActivity = {}
    /\ pc = "start" /\ RunFresh
    /\ topicHistory = <<>> /\ reqCount = 0 /\ generated = <<>> /\ tpc = "idle"
    /\ DistIdle /\ SelIdle /\ SideIdle

\* the regenerate route on the calendar of the finished run: the replies of
\* its posts and its posts are deleted (route.ts 84-110), then
\* generateCalendar starts with the stored week_start_date of the calendar,
\* its posts_per_week (the value the creating run stored, index.ts 160) and
\* its id as existing_calendar_id (route.ts 122-127); the collaborator is
\* asked anew
Regenerate ==
    /\ pc = "done"
    /\ regenerations < MaxRegenerations
    /\ regenerations' = regenerations + 1
    /\ \E at \in {FindById(dbCalendars, calendar)} :
       \E existingPostIds \in {{dbPosts[k].id : k \in {j \in DOMAIN dbPosts :
                                   dbPosts[j].calendar_id = calendar}}} :
          /\ at # 0
          /\ dbReplies' = SelectSeqIdx(dbReplies,
                              {k \in DOMAIN dbReplies :
                                  dbReplies[k].post_id \notin existingPostIds}, 1)
          /\ dbPosts' = SelectSeqIdx(dbPosts,
                              {k \in DOMAIN dbPosts : dbPosts[k].calendar_id # calendar}, 1)
          /\ params' = [week_start_date |-> dbCalendars[at].week_start_date,
                        posts_per_week |-> params.posts_per_week,
                        existing_calendar_id |-> calendar]
    /\ llm' \in RegenAnswers
    /\ pc' = "start"
    /\ error' = "" /\ generatedTopics' = <<>> /\ calendar' = 0
    /\ posts' = <<>> /\ postPersonaMap' = <<>> /\ usedTopics' = {} /\ topicIndex' = 0
    /\ activitiesMap' = <<>> /\ recentPosts' = <<>> /\ previousWeeksPosts' = <<>>
    /\ dayPosts' = <<>> /\ strategyMap' = <<>> /\ slot' = NoSlot
    /\ replyPlans' = <<>> /\ validatedReplies' = <<>> /\ replies' = <<>>
    /\ spamCheck' = NoSpamCheck
    /\ UNCHANGED <<failures, dbCalendars, dbTopicHistory, dbActivity, now, personas,
                   subreddits, company, topicHistory, reqCount, generated, tpc>>
    /\ UNCHANGED <<distVars, tz, selVars, qualityVars, assignVars, raceVars>>

RegenNext == StartRun \/ PlanSlot \/ FinishRun \/ Regenerate

SpecRegenerate == RegenInit /\ [][RegenNext]_vars

\* C16 as claimed: whatever runs have been made for the company, no two rows
\* of topic_history have topic texts that are equal after normalization.
C16_NoTwoRowsEqualNormalized ==
    \A i, j \in DOMAIN dbTopicHistory :
        i # j => normalizeTopic(dbTopicHistory[i].topic)
                    # normalizeTopic(dbTopicHistory[j].topic)

\* the posts the calendar of the run holds in a channel
C17_Held(id) ==
    Cardinality({k \in DOMAIN dbPosts :
                    dbPosts[k].calendar_id = calendar /\ dbPosts[k].subreddit_id = id})

\* the stored posts_this_week of a channel for the week of the calendar of
\* the run (0: no row)
C17_Stored(id) ==
    LET week == dbCalendars[FindById(dbCalendars, calendar)].week_start_date
        rows == {r \in dbActivity : r.subreddit_id = id /\ r.week_start_date = week}
    IN  IF rows = {} THEN 0 ELSE (CHOOSE r \in rows : TRUE).posts_this_week

\* C17 as claimed: when a run that planned the calendar again is over, the
\* stored posts_this_week of every channel for the week of the calendar is
\* the number of posts the calendar holds in that channel.
C17_CounterEqualsHeldPosts ==
    (pc = "done" /\ regenerations >= 1) =>
        \A s \in DOMAIN subreddits :
            C17_Stored(subreddits[s].id) = C17_Held(subreddits[s].id)

(***************************************************************************)
(* Two generateCalendar runs for one company and week, as far as they      *)
(* touch subreddit_activity  (src/lib/planning/index.ts 92-100, 139-184,   *)
(* 238-434, 489-495, 565-573).  The company has the one channel A, so      *)
(* every post of either run goes to it; the server runs in UTC.  A run is  *)
(* [pc, existing, calendar, activitiesMap, dayPosts, slot, loaded,         *)
(* created]: existing is params.existing_calendar_id (0: none), loaded the *)
(* posts_this_week it read for the channel, created its posts so far.      *)
(***************************************************************************)
\* most posts asked for by the runs
MaxRacePosts == 2

RaceChannel == ChannelA.id

\* the stored posts_this_week of the channel for the week (0: no row)
raceStored(rows) ==
    IF \E r \in rows : r.subreddit_id = RaceChannel /\ r.week_start_date = WeekStartStr
    THEN (CHOOSE r \in rows : r.subreddit_id = RaceChannel
                              /\ r.week_start_date = WeekStartStr).posts_this_week
    ELSE 0

RaceInit ==
    /\ tz = 0 /\ now = -36
    /\ subreddits = <<ChannelA>> /\ personas = <<PersonaP1, PersonaP2>>
    /\ \E n \in 1..MaxRacePosts :
          params = [week_start_date |-> 0, posts_per_week |-> n, existing_calendar_id |-> 0]
    /\ dbCalendars \in {<<>>, <<OldCalendar(0)>>}
    /\ \E count \in 1..2 :
          dbActivity = {[id |-> StoredId, subreddit_id |-> RaceChannel,
                         week_start_date |-> 0, last_post_date |-> 0,
                         posts_this_week |-> count]}
    /\ \E ids \in [1..2 -> {0, 1}] :
          runs = [r \in 1..2 |->
                    [pc |-> "load", existing |-> ids[r], calendar |-> 0,
                     activitiesMap |-> <<>>, dayPosts |-> <<>>, slot |-> NoSlot,
                     loaded |-> 0, created |-> 0]]
    /\ writeLog = <<>>
    /\ dbPosts = <<>> /\ dbReplies = <<>> /\ dbTopicHistory = <<>>
    /\ pc = "idle" /\ RunFresh
    /\ regenerations = 0 /\ QualityIdle /\ AssignIdle
    /\ DistIdle /\ TopicIdle /\ SelIdle

\* what a step of a run leaves alone
RaceUnchanged ==
    UNCHANGED <<distVars, topicVars, tz, selVars, envVars, dbPosts, dbReplies,
                dbTopicHistory, runVars, regenerations, qualityVars, assignVars>>

\* the select of the week's subreddit_activity rows (index.ts 92-100) and the
\* map built from them (index.ts 180-183)
RaceLoad(r) ==
    /\ runs[r].pc = "load"
    /\ runs' = [runs EXCEPT ![r].pc = "calendar",
                            ![r].activitiesMap =
                                loadActivities(dbActivity, subreddits, WeekStartStr),
                            ![r].loaded = raceStored(dbActivity)]
    /\ writeLog' = Append(writeLog, [run |-> r, op |-> "load",
                                     value |-> raceStored(dbActivity)])
    /\ UNCHANGED <<dbCalendars, dbActivity>>
    /\ RaceUnchanged

\* step 3 (index.ts 139-167): the calendar named by the request is looked
\* up, or a calendar is inserted, which UNIQUE(company_id, week_start_date)
\* refuses when the week has one
RaceCalendar(r) ==
    /\ runs[r].pc = "calendar"
    /\ LET dist == distributePostsAcrossWeek(params.posts_per_week)
           taken == \E k \in DOMAIN dbCalendars :
                       dbCalendars[k].week_start_date = WeekStartStr
           started(id) == [runs EXCEPT ![r].pc = "slots", ![r].calendar = id,
                                       ![r].dayPosts = dist,
                                       ![r].slot = FirstSlotFrom(dist, 0)]
       IN  IF runs[r].existing # 0
           THEN /\ runs' = IF FindById(dbCalendars, runs[r].existing) = 0
                           THEN [runs EXCEPT ![r].pc = "failed"]
                           ELSE started(runs[r].existing)
                /\ UNCHANGED dbCalendars
           ELSE IF taken
           THEN runs' = [runs EXCEPT ![r].pc = "failed"] /\ UNCHANGED dbCalendars
           ELSE /\ runs' = started(Len(dbCalendars) + 1)
                /\ dbCalendars' = Append(dbCalendars,
                       [id |-> Len(dbCalendars) + 1, week_start_date |-> WeekStartStr,
                        created_at |-> now, spam_warnings |-> <<>>])
    /\ UNCHANGED <<dbActivity, writeLog>>
    /\ RaceUnchanged

\* one pass of the inner loop of step 4: the post is stored and the run's
\* own map is updated (index.ts 413-420), or the insert fails and the slot
\* is skipped
RacePlace(r) ==
    /\ runs[r].pc = "slots"
    /\ LET run == runs[r]
           targetDate == WeekStart + 24 * run.slot[1]
           next == NextSlot(run.dayPosts, run.slot)
           after == IF next = NoSlot THEN "finish" ELSE "slots"
       IN  \/ runs' = [runs EXCEPT
                          ![r].pc = after, ![r].slot = next,
                          ![r].created = run.created + 1,
                          ![r].activitiesMap = [run.activitiesMap EXCEPT ![RaceChannel] =
                              updateSubredditActivity(RaceChannel, targetDate,
                                                      run.activitiesMap)]]
           \/ runs' = [runs EXCEPT ![r].pc = after, ![r].slot = next]
    /\ UNCHANGED <<dbCalendars, dbActivity, writeLog>>
    /\ RaceUnchanged

\* the rows after a write-back that added the run's posts to the stored count
raceWriteBackAdded(rows, run, acceptsEmptyId) ==
    {[r EXCEPT !.posts_this_week =
          IF r.subreddit_id = RaceChannel /\ r.week_start_date = WeekStartStr
          THEN r.posts_this_week + run.created ELSE r.posts_this_week] : r \in rows}

\* step 8 (index.ts 565-573): the run's map is upserted as it is
raceWriteBack(rows, run, acceptsEmptyId) ==
    upsertActivities(rows, run.activitiesMap, acceptsEmptyId)

\* the check of the created posts (index.ts 489-495) and step 8
RaceFinish(r) ==
    /\ runs[r].pc = "finish"
    /\ IF runs[r].created = 0
       THEN /\ runs' = [runs EXCEPT ![r].pc = "failed"]
            /\ UNCHANGED <<dbActivity, writeLog>>
       ELSE \E acceptsEmptyId \in BOOLEAN :
            \E rows \in {raceWriteBack(dbActivity, runs[r], acceptsEmptyId)} :
               /\ dbActivity' = rows
               /\ writeLog' = Append(writeLog, [run |-> r, op |-> "write",
                                                value |-> raceStored(rows)])
               /\ runs' = [runs EXCEPT ![r].pc = "done"]
    /\ UNCHANGED dbCalendars
    /\ RaceUnchanged

RaceNext ==
    \E r \in DOMAIN runs : RaceLoad(r) \/ RaceCalendar(r) \/ RacePlace(r) \/ RaceFinish(r)

SpecRace == RaceInit /\ [][RaceNext]_vars

\* the run that wrote the counters last
C18_LastWriter ==
    writeLog[CHOOSE k \in DOMAIN writeLog :
                /\ writeLog[k].op = "write"
                /\ \A j \in DOMAIN writeLog : writeLog[j].op = "write" => j <= k].run

\* C18: the write-back of a run is read-modify-write without a lock.  When
\* both runs are over, the stored posts_this_week of the channel is what the
\* run that wrote last had loaded plus the posts of that run alone, whatever
\* the other run wrote in between.
C18_LastWriterWins ==
    ((\A r \in DOMAIN runs : runs[r].pc \in {"done", "failed"})
        /\ \E k \in DOMAIN writeLog : writeLog[k].op = "write")
    => raceStored(dbActivity)
          = runs[C18_LastWriter].loaded + runs[C18_LastWriter].created

\* both runs loaded the row before either wrote it back, both created posts
\* and finished, and the stored count is below the count before the runs
\* plus the posts of the two runs
C18_Witness ==
    /\ Len(writeLog) = 4
    /\ writeLog[1].op = "load" /\ writeLog[2].op = "load"
    /\ \A r \in DOMAIN runs : runs[r].pc = "done" /\ runs[r].created > 0
    /\ raceStored(dbActivity) < writeLog[1].value + runs[1].created + runs[2].created

\* C25 as claimed: each of the eight sub-scores of a scored plan of at least
\* one post lies between 0 and 10 (the scores are kept in tenths).
C25_SubScoresBetween0And10 ==
    (qpc # "first" /\ quality # <<>>) =>
        \A f \in {"topic_diversity", "persona_rotation", "subreddit_distribution",
                  "reply_naturalness", "realism", "subreddit_fit", "spam_risk",
                  "persona_distinctiveness"} :
            quality[f] >= 0 /\ quality[f] <= 100

(***************************************************************************)
(* checkSpamAndSafety called on its own  (src/unnamed/part_000 25-176)     *)
(***************************************************************************)
\* most posts of an audited plan
MaxAuditPosts == 3

\* "Why startups scaling support fails"
TxtStartupsFails == <<W("Why"), W("startups"), W("scaling"), W("support"), W("fails")>>

\* a post that could be audited
AuditDrafts ==
    {[id |-> 0, calendar_id |-> 1, day_of_week |-> day, subreddit_id |-> subreddit,
      topic |-> topic, persona_id |-> persona, post_type |-> "question",
      order_in_day |-> 0, created_at |-> 0] :
        day \in {1, 2, 4}, subreddit \in {1, 2}, persona \in {"P1", "P2"},
        topic \in {TxtStartupsSupport, TxtStartupsFails}}

\* the posts of an audited plan: P1 writes one topic and P2 the other
AuditPosts ==
    {p \in AuditDrafts : (p.persona_id = "P1") = (p.topic = TxtStartupsSupport)}

\* the channel lists of an audit: A (cooldown 7, at most 2 posts) and B
\* (cooldown 3, at most 3), or A with at most 1 post and B with cooldown 1
AuditChannels ==
    { <<ChannelA, ChannelB>>,
      <<[ChannelA EXCEPT !.max_posts_per_week = 1],
        [ChannelB EXCEPT !.min_cooldown_days = 1]>> }

AuditInit ==
    /\ \E n \in 1..MaxAuditPosts : \E plan \in [1..n -> AuditPosts] :
          posts = [k \in 1..n |-> [plan[k] EXCEPT !.id = k]]
    /\ subreddits \in AuditChannels
    /\ personas = <<PersonaP1, PersonaP2>>
    /\ previousWeeksPosts = <<>>
    /\ spamCheck = NoSpamCheck
    /\ pc = "audit"
    /\ tz = 0 /\ now = 0 /\ params = <<>>
    /\ dbCalendars = <<>> /\ dbPosts = <<>> /\ dbReplies = <<>>
    /\ dbTopicHistory = <<>> /\ dbActivity = {}
    /\ error = "" /\ generatedTopics = <<>> /\ calendar = 0
    /\ postPersonaMap = <<>> /\ usedTopics = {} /\ topicIndex = 0
    /\ activitiesMap = <<>> /\ recentPosts = <<>>
    /\ dayPosts = <<>> /\ strategyMap = <<>> /\ slot = NoSlot
    /\ replyPlans = <<>> /\ validatedReplies = <<>> /\ replies = <<>>
    /\ failures = 0
    /\ DistIdle /\ TopicIdle /\ SelIdle /\ SideIdle

\* one call of checkSpamAndSafety
CheckSpamAndSafety ==
    /\ pc = "audit"
    /\ spamCheck' = checkSpamAndSafety(posts, subreddits, previousWeeksPosts)
    /\ pc' = "audited"
    /\ UNCHANGED <<error, generatedTopics, calendar, posts, postPersonaMap, usedTopics,
                   topicIndex, activitiesMap, recentPosts, previousWeeksPosts, dayPosts,
                   strategyMap, slot, replyPlans, validatedReplies, replies, failures>>
    /\ UNCHANGED <<distVars, topicVars, tz, selVars, envVars, dbVars, sideVars>>

AuditNext == CheckSpamAndSafety

SpecAudit == AuditInit /\ [][AuditNext]_vars

\* the warnings of the audit of one type
AuditWarnings(type) ==
    {k \in DOMAIN spamCheck.warnings : spamCheck.warnings[k].type = type}

\* the channel with this id
AuditChannel(id) == subreddits[CHOOSE s \in DOMAIN subreddits : subreddits[s].id = id]

\* C21 as claimed: for every two posts of the plan in the same channel, less
\* than 2 days apart, in a channel whose cooldown is over 1 day, the audit
\* has a "Posts too close together" warning for the channel.
C21_EveryClosePairFlagged ==
    pc = "audited" =>
        \A i, j \in DOMAIN posts :
            (/\ i # j
             /\ posts[i].subreddit_id = posts[j].subreddit_id
             /\ posts[i].day_of_week <= posts[j].day_of_week
             /\ posts[j].day_of_week - posts[i].day_of_week < 2
             /\ AuditChannel(posts[i].subreddit_id).min_cooldown_days > 1)
            => \E k \in AuditWarnings("overposting") :
                  /\ spamCheck.warnings[k].message = "Posts too close together"
                  /\ spamCheck.warnings[k].subreddit = posts[i].subreddit_id

\* the posts of the plan in a channel
C22_Count(id) == Cardinality({k \in DOMAIN posts : posts[k].subreddit_id = id})

\* the "Risk of overposting" warnings for a channel
C22_Warnings(id) ==
    {k \in AuditWarnings("overposting") :
        /\ spamCheck.warnings[k].message = "Risk of overposting"
        /\ spamCheck.warnings[k].subreddit = id}

\* C22 as claimed: a channel with more posts than its max_posts_per_week has
\* exactly one overposting warning, of severity high when the count is at
\* least 1.5 times the max and medium otherwise; a channel within its max
\* has none.
C22_SeverityHighFromOneAndAHalf ==
    pc = "audited" =>
        \A s \in DOMAIN subreddits :
            LET id == subreddits[s].id
                max == subreddits[s].max_posts_per_week
            IN  IF C22_Count(id) > max
                THEN /\ Cardinality(C22_Warnings(id)) = 1
                     /\ \A k \in C22_Warnings(id) :
                           spamCheck.warnings[k].severity =
                               IF 2 * C22_Count(id) >= 3 * max THEN "high" ELSE "medium"
                ELSE C22_Warnings(id) = {}

\* the posts of the plan by a persona
C23_Count(id) == Cardinality({k \in DOMAIN posts : posts[k].persona_id = id})

\* C23 as claimed: the audit has a persona_imbalance warning exactly when
\* the most-used and the least-used persona of the persona list (one
\* without a post counts 0) differ by more than 40% of the plan's posts.
C23_ImbalanceOverPersonaList ==
    pc = "audited" =>
        ((AuditWarnings("persona_imbalance") # {})
            <=> \E a, b \in DOMAIN personas :
                    10 * (C23_Count(personas[a].id) - C23_Count(personas[b].id))
                        > 4 * Len(posts))

\* the lower-case words of more than 4 characters of the topic of post k
C24_Words(k) ==
    LET text == toLowerCase(posts[k].topic)
    IN  SelectSeqIdx(text, {i \in DOMAIN text : Len(text[i].w) + Len(text[i].p) > 4}, 1)

\* where the phrases of three such words in a row begin: <<post, position>>
C24_Places == {<<k, i>> : k \in DOMAIN posts, i \in 1..3} \cap
              {pl \in (DOMAIN posts) \X (1..3) : pl[2] + 2 <= Len(C24_Words(pl[1]))}

C24_PhraseAt(pl) ==
    <<C24_Words(pl[1])[pl[2]], C24_Words(pl[1])[pl[2] + 1], C24_Words(pl[1])[pl[2] + 2]>>

C24_Phrases == {C24_PhraseAt(pl) : pl \in C24_Places}

C24_Occurrences(phrase) == Cardinality({pl \in C24_Places : C24_PhraseAt(pl) = phrase})

\* the wording_pattern warnings that quote a phrase
C24_Warnings(phrase) ==
    {k \in AuditWarnings("wording_pattern") : spamCheck.warnings[k].text = phrase}

\* what a warning adds to the risk, in halves
C24_Risk(w) ==
    CASE w.type = "overposting" -> IF w.severity = "high" THEN 6 ELSE 4
      [] w.type = "persona_imbalance" -> 4
      [] w.type = "topic_repetition" ->
            IF w.severity = "high" THEN 4 ELSE IF w.severity = "medium" THEN 2 ELSE 1
      [] w.type = "wording_pattern" -> 2

\* C24 as claimed: every phrase of three words of more than 4 characters in
\* a row that occurs two or more times across the topics has a
\* wording_pattern warning.
C24_WarningFromTwoOccurrences ==
    pc = "audited" =>
        \A phrase \in C24_Phrases :
            C24_Occurrences(phrase) >= 2 => C24_Warnings(phrase) # {}

\* C24: the audit has one wording_pattern warning for every phrase that
\* occurs three or more times across the topics, and none for any other
\* phrase; a phrase is three entries in a row of the list of the lower-case
\* words of more than 4 characters of a topic.  Every warning adds 1 to the
\* risk, which is capped at 10.
C24_WarningFromThreeOccurrences ==
    pc = "audited" =>
        /\ \A phrase \in C24_Phrases :
              Cardinality(C24_Warnings(phrase))
                  = IF C24_Occurrences(phrase) >= 3 THEN 1 ELSE 0
        /\ \A k \in AuditWarnings("wording_pattern") :
              spamCheck.warnings[k].text \in C24_Phrases
        /\ spamCheck.riskScore2
              = Min2(20, SumSeq([k \in DOMAIN spamCheck.warnings |->
                                    C24_Risk(spamCheck.warnings[k])]))

\* an audit of a plan where one phrase occurs three times and is flagged and
\* another occurs twice and is not
C24_Witness ==
    /\ pc = "audited"
    /\ \E phrase \in C24_Phrases :
          C24_Occurrences(phrase) = 3 /\ C24_Warnings(phrase) # {}
    /\ \E phrase \in C24_Phrases :
          C24_Occurrences(phrase) = 2 /\ C24_Warnings(phrase) = {}

\* C26 as claimed: a total of 1, 2 or 3 posts is placed on the days of
\* weight 1.2 (Monday to Thursday) only: Sunday, Friday and Saturday get a
\* post only after every one of Monday to Thursday has one.
C26_SmallTotalsOnHighestWeightedDays ==
    (dpc = "done" /\ totalPosts <= 3) =>
        /\ SumWeek(distribution) = totalPosts
        /\ \A low \in {0, 5, 6} :
              distribution[low] > 0 => \A high \in 1..4 : distribution[high] > 0

\* the posts_this_week of an entry of the in-memory activity map
C27_Count(a) == IF a = NoActivity THEN 0 ELSE a.posts_this_week

\* C27 as claimed: a slot whose insert fails records nothing (the post
\* list, the post-to-persona map, the in-memory activity and the topic
\* history stay as they are) and the loop goes on to the next slot; a slot
\* whose insert succeeds raises the posts_this_week of the chosen channel by
\* exactly 1 and leaves the activity of every other channel alone.
C27_SlotRecordsAllOrNothing ==
    [][pc = "slots" =>
          IF Len(posts') = Len(posts)
          THEN /\ posts' = posts /\ postPersonaMap' = postPersonaMap
               /\ activitiesMap' = activitiesMap /\ dbTopicHistory' = dbTopicHistory
               /\ slot' = NextSlot(dayPosts, slot)
          ELSE LET channel == posts'[Len(posts')].subreddit_id
               IN  /\ Len(posts') = Len(posts) + 1
                   /\ C27_Count(activitiesMap'[channel])
                          = C27_Count(activitiesMap[channel]) + 1
                   /\ \A other \in DOMAIN activitiesMap \ {channel} :
                          activitiesMap'[other] = activitiesMap[other]]_vars

(***************************************************************************)
(* assignWeeklyStrategy called on its own  (strategy.ts 18-62)             *)
(***************************************************************************)
\* most posts of a week handed to assignWeeklyStrategy
MaxStrategyPosts == 12

\* the weeks handed over: what distributePostsAcrossWeek returns, the same
\* with one day emptied, and every week with at most one post a day
StrategyWeeks ==
    LET distributed == {distributePostsAcrossWeek(total) : total \in 1..MaxStrategyPosts}
    IN  distributed \cup {[week EXCEPT ![d] = 0] : week \in distributed, d \in 0..6}
            \cup [0..6 -> {0, 1}]

StrategyInit ==
    /\ dayPosts \in StrategyWeeks
    /\ \E d \in 0..6 : dayPosts[d] > 0
    /\ strategyMap = <<>>
    /\ pc = "strategy"
    /\ tz = 0 /\ now = 0 /\ params = <<>> /\ personas = <<>> /\ subreddits = <<>>
    /\ dbCalendars = <<>> /\ dbPosts = <<>> /\ dbReplies = <<>>
    /\ dbTopicHistory = <<>> /\ dbActivity = {}
    /\ error = "" /\ generatedTopics = <<>> /\ calendar = 0
    /\ posts = <<>> /\ postPersonaMap = <<>> /\ usedTopics = {} /\ topicIndex = 0
    /\ activitiesMap = <<>> /\ recentPosts = <<>> /\ previousWeeksPosts = <<>>
    /\ slot = NoSlot /\ spamCheck = NoSpamCheck
    /\ replyPlans = <<>> /\ validatedReplies = <<>> /\ replies = <<>>
    /\ failures = 0
    /\ DistIdle /\ TopicIdle /\ SelIdle /\ SideIdle

\* one call of assignWeeklyStrategy
AssignWeeklyStrategy ==
    /\ pc = "strategy"
    /\ strategyMap' \in assignWeeklyStrategy(dayPosts, 0)
    /\ pc' = "assigned"
    /\ UNCHANGED <<error, generatedTopics, calendar, posts, postPersonaMap, usedTopics,
                   topicIndex, activitiesMap, recentPosts, previousWeeksPosts, dayPosts,
                   slot, replyPlans, validatedReplies, replies, spamCheck, failures>>
    /\ UNCHANGED <<distVars, topicVars, tz, selVars, envVars, dbVars, sideVars>>

StrategyNext == AssignWeeklyStrategy

SpecStrategy == StrategyInit /\ [][StrategyNext]_vars

\* the stages in their order
C28_Stages == <<"awareness", "authority", "subtle_product", "value", "engagement">>

\* the days of the week that have a post
C28_DaysWithPosts == {d \in 0..6 : dayPosts[d] > 0}

\* C28: assignWeeklyStrategy gives a list to exactly the days with at least
\* one post, as long as the day has posts; the first post of the k-th such
\* day (k = 0, 1, ... from Sunday) gets stage k mod 5 of awareness,
\* authority, subtle_product, value, engagement; every further post of a day
\* gets a stage other than the day's first and never subtle_product.
C28_StagesFollowDaysWithPosts ==
    pc = "assigned" =>
        /\ DOMAIN strategyMap = C28_DaysWithPosts
        /\ \A d \in C28_DaysWithPosts :
              LET k == Cardinality({e \in C28_DaysWithPosts : e < d})
              IN  /\ Len(strategyMap[d]) = dayPosts[d]
                  /\ strategyMap[d][1] = C28_Stages[(k % 5) + 1]
                  /\ \A i \in 2..dayPosts[d] :
                        /\ strategyMap[d][i] # strategyMap[d][1]
                        /\ strategyMap[d][i] # "subtle_product"

\* a week with an empty day before a day with posts, more than five days
\* with posts and a day with several posts has its stages
C28_Witness ==
    /\ pc = "assigned"
    /\ Cardinality(C28_DaysWithPosts) > 5
    /\ \E d \in C28_DaysWithPosts : dayPosts[d] > 1
    /\ \E d \in C28_DaysWithPosts : \E e \in 0..(d - 1) : dayPosts[e] = 0

(***************************************************************************)
(* checkFrequency applied to two counts  (subreddits.ts 154-179)           *)
(***************************************************************************)
\* largest max_posts_per_week of the channel
MaxWeekly == 7
\* largest posts_this_week of the activity row
MaxUsed == 8

FrequencyInit ==
    /\ tz \in TzChoices
    /\ \E max \in 1..MaxWeekly :
          selSubreddits = <<[id |-> 1, name |-> <<"startups">>, rules |-> {},
                             min_cooldown_days |-> 3, max_posts_per_week |-> max,
                             size_category |-> "medium"]>>
    /\ \E week \in {-7, 0} : \E u1 \in 0..MaxUsed : \E u2 \in u1..MaxUsed :
          selActivities = [k \in 1..2 |->
                              [week_start_date |-> week, last_post_date |-> week,
                               posts_this_week |-> IF k = 1 THEN u1 ELSE u2]]
    /\ selTopic = TopicQuestion
    /\ selDay \in {1, 3}
    /\ selResult = <<>>
    /\ spc = "frequency"
    /\ DistIdle /\ TopicIdle /\ RunIdle /\ SideIdle

\* checkFrequency for the same channel and date with each of the two rows
CheckFrequency ==
    /\ spc = "frequency"
    /\ selResult' = [k \in 1..2 |-> checkFrequency(selSubreddits[1], selActivities[k],
                                                   LocalMidnight(selDay))]
    /\ spc' = "scored"
    /\ UNCHANGED <<selSubreddits, selActivities, selTopic, selDay, tz, distVars, topicVars,
                   envVars, dbVars, runVars, sideVars>>

FrequencyNext == CheckFrequency

SpecFrequency == FrequencyInit /\ [][FrequencyNext]_vars

\* C29 as claimed: for one channel and one target date the frequency score
\* of checkFrequency never rises when posts_this_week grows, the step onto
\* the weekly limit included.
C29_FrequencyNeverIncreases ==
    spc = "scored" => selResult[1] >= selResult[2]

\* the row the next-week route looks up before it generates: the calendar
\* whose week_start_date is nextWeekStart.toISOString().split('T')[0]
\* (0 when there is none)
existingCalendar(calendars, nextWeekStart) ==
    IF \E k \in DOMAIN calendars : calendars[k].week_start_date = IsoDate(nextWeekStart)
    THEN calendars[CHOOSE k \in DOMAIN calendars :
                       calendars[k].week_start_date = IsoDate(nextWeekStart)].id
    ELSE 0

\* C30 as claimed: when a run that was asked to create the calendar fails
\* because no post could be created, no content_calendars row of the week
\* is left in the store, and the lookup of the next-week route for that
\* week finds no calendar.
C30_FailedRunLeavesNoCalendar ==
    (pc = "failed" /\ error = "Failed to create any posts"
                   /\ params.existing_calendar_id = 0) =>
        /\ \A k \in DOMAIN dbCalendars : dbCalendars[k].week_start_date # WeekStartStr
        /\ existingCalendar(dbCalendars, WeekStart) = 0

====
